---- MODULE Spec2Model ----
(***************************************************************************)
(* NexGen University accounts: the relational store behind                 *)
(* accounts/models.py (Profile, Student, FacultyMember, StaffMember,       *)
(* Alumni) and the operations that write it.  Each save() is modelled as   *)
(* Django runs it: Model.full_clean() (clean_fields, then clean(), then    *)
(* validate_unique, the errors of all three collected and raised           *)
(* together) followed by the row write.  A clean() that writes (the        *)
(* role-tag correction, which calls Profile.save()) writes the store at    *)
(* that point, whatever full_clean() raises afterwards.                    *)
(*                                                                         *)
(* Rows of the three role tables are keyed by the Profile they belong to   *)
(* (profile is a OneToOneField, so a table holds at most one row per       *)
(* Profile); a StaffMember's supervisor is the key of another staff row    *)
(* or None.  A record that is not saved yet has the primary key None.      *)
(***************************************************************************)
EXTENDS Integers, Sequences, FiniteSets, TLC

\* ------------------------------------------------------------------ bounds
NProfiles == 3     \* Profiles of the staff-hierarchy specification
NRole == 1         \* Profiles of the role-lifecycle and alumni specifications
NRace == 2         \* staff rows of the concurrent-saves specification
NLevel == 2        \* Profiles of the access-level specification
NUsers == 2        \* users of the user-lifecycle specification
NDepartments == 3  \* rows of the Department table
MaxStamp == 2      \* writes of one Profile row

Profiles == 1..NProfiles
None == 0

\* ------------------------------------------------------------- plain data
USER_TYPE_CHOICES == {"student", "faculty", "staff", "admin", "other"}
STATUS_CHOICES == {"active", "on_leave", "graduated", "withdrawn", "suspended"}
POSITION_CHOICES == {"professor", "assoc_professor", "asst_professor",
                     "lecturer", "instructor", "adjunct", "other"}
ADMIN_LEVEL_CHOICES == 1..4

Date(y, m, d) == [y |-> y, m |-> m, d |-> d]

\* a < b on calendar dates
DateLT(a, b) ==
    \/ a.y < b.y
    \/ a.y = b.y /\ a.m < b.m
    \/ a.y = b.y /\ a.m = b.m /\ a.d < b.d

DateLE(a, b) == a = b \/ DateLT(a, b)

\* timezone.now().date(): the ambient current date
Today == Date(2026, 6, 15)

\* relativedelta(b, a).years for a <= b: whole calendar years from a to b
WholeYears(a, b) ==
    (b.y - a.y) - (IF b.m < a.m \/ (b.m = a.m /\ b.d < a.d) THEN 1 ELSE 0)

IsLeap(y) == (y % 4 = 0 /\ y % 100 # 0) \/ y % 400 = 0

\* days of the year before the first of each month, in a common year
DaysBeforeMonth == <<0, 31, 59, 90, 120, 151, 181, 212, 243, 273, 304, 334>>

\* date.toordinal(): the day number of a calendar date
Ordinal(a) ==
    365 * (a.y - 1) + ((a.y - 1) \div 4) - ((a.y - 1) \div 100)
        + ((a.y - 1) \div 400)
        + DaysBeforeMonth[a.m] + (IF a.m > 2 /\ IsLeap(a.y) THEN 1 ELSE 0)
        + a.d

\* (b - a).days
DaysBetween(a, b) == Ordinal(b) - Ordinal(a)

\* calendar.monthrange(y, m)[1]: the days of a month
DaysInMonth(y, m) ==
    IF m = 2 THEN (IF IsLeap(y) THEN 29 ELSE 28)
    ELSE IF m \in {4, 6, 9, 11} THEN 30 ELSE 31

\* relativedelta(dt1, dt2): the signed count of whole months from dt2 to
\* dt1.  The month difference of the two dates is stepped once towards zero
\* when dt2 moved by it (the day held to the length of the month) passes dt1.
RelativeMonths(dt1, dt2) ==
    LET months == (dt1.y - dt2.y) * 12 + (dt1.m - dt2.m)
        day == IF dt2.d < DaysInMonth(dt1.y, dt1.m) THEN dt2.d
               ELSE DaysInMonth(dt1.y, dt1.m)
    IN  IF DateLT(dt1, dt2)
        THEN months + (IF dt1.d > day THEN 1 ELSE 0)
        ELSE months - (IF dt1.d < day THEN 1 ELSE 0)

\* relativedelta(dt1, dt2).years: the months over twelve, towards zero
RelativeYears(dt1, dt2) ==
    LET months == RelativeMonths(dt1, dt2)
    IN  IF months < 0 THEN 0 - ((0 - months) \div 12) ELSE months \div 12

\* an optional value is <<>> (null) or <<v>>
Null == <<>>
Some(v) == <<v>>
IsSet(o) == Len(o) > 0
Val(o) == o[1]

Digits == {"0", "1", "2", "3", "4", "5", "6", "7", "8", "9"}

\* the characters str.isdigit() calls digits: the decimal digits and the
\* other characters of Numeric_Type Digit, of which the model has the
\* superscript two, written "sup2"
DigitChars == Digits \cup {"sup2"}

\* str.isdigit(): non-empty and every character a digit
IsDigit(s) == Len(s) > 0 /\ \A i \in 1..Len(s) : s[i] \in DigitChars

\* id.startswith(prefix) and id[1:].isdigit(), ids being character sequences
IdFormatOK(prefix, id) ==
    /\ Len(id) >= 1
    /\ id[1] = prefix
    /\ IsDigit(SubSeq(id, 2, Len(id)))

\* max_length of student_id, faculty_id and staff_id
IdMaxLength == 20

\* ------------------------------------------------------------------ state
VARIABLES
    user,       \* the ids of the stored User rows
    address,    \* the ids of the stored Address rows
    department, \* Department table, keyed by id
    profile,    \* Profile table, keyed by user
    student,    \* Student table, keyed by profile
    faculty,    \* FacultyMember table, keyed by profile
    staff,      \* StaffMember table, keyed by profile
    alumni,     \* Alumni table, keyed by the student's profile
    session,    \* requests in flight: what each has validated, not yet written
    res         \* what the last operation was and what it raised

store ==
    <<user, address, department, profile, student, faculty, staff, alumni>>
vars ==
    <<user, address, department, profile, student, faculty, staff, alumni,
      session, res>>

\* table t with row r at key k (insert or overwrite)
Put(t, k, r) == [q \in DOMAIN t \cup {k} |-> IF q = k THEN r ELSE t[q]]

\* table t without key k
Drop(t, k) == [q \in DOMAIN t \ {k} |-> t[q]]

EmptyTable == [q \in {} |-> 0]

\* Profile.objects.create(user=instance): every field at its default
NewProfile == [user_type |-> "other", date_of_birth |-> Null, address |-> None,
               is_active |-> TRUE, last_updated |-> 0]

\* the last operation: its name, the table, the Profile key, the primary key
\* of the instance (None: a record not saved yet), and the fields its
\* validation raised errors on ({}: the operation succeeded), and the tables
\* it wrote a row of
Result(op, kind, pid, pk, errs, wrote) ==
    [op |-> op, kind |-> kind, pid |-> pid, pk |-> pk, errs |-> errs,
     wrote |-> wrote]

\* ---------------------------------------------------------------- Profile
\* Profile.clean_fields: user_type must be one of the choices
ProfileFieldErrors(row) ==
    IF row.user_type \in USER_TYPE_CHOICES THEN {} ELSE {"user_type"}

\* Profile.clean: date_of_birth not in the future, and age >= 16
ProfileCleanErrors(row) ==
    IF ~IsSet(row.date_of_birth) THEN {}
    ELSE IF DateLT(Today, Val(row.date_of_birth)) THEN {"date_of_birth"}
    ELSE IF WholeYears(Val(row.date_of_birth), Today) < 16 THEN {"date_of_birth"}
    ELSE {}

\* what Profile.full_clean() raises for the row
ProfileErrors(row) == ProfileFieldErrors(row) \cup ProfileCleanErrors(row)

\* the row as super().save() writes it: auto_now sets last_updated
Stamped(row) == [row EXCEPT !.last_updated = @ + 1]

\* the role-tag correction at the end of a role record's clean():
\* whether it runs, what Profile.save() raises, and the Profile table after it
TagStale(p, kind) == profile[p].user_type # kind

Retagged(p, kind) == [profile[p] EXCEPT !.user_type = kind]

SyncErrors(p, kind) ==
    IF TagStale(p, kind) THEN ProfileErrors(Retagged(p, kind)) ELSE {}

\* faulty variant: the correction saves the Profile whether or not the tag differs
SyncWritesAlways(p, kind) == ProfileErrors(Retagged(p, kind)) = {}

SyncWrites(p, kind) ==
    TagStale(p, kind) /\ ProfileErrors(Retagged(p, kind)) = {}

\* faulty variant: the tag is set on the instance and Profile.save() is never called
SyncedProfilesUnsaved(p, kind) == profile

SyncedProfiles(p, kind) ==
    IF SyncWrites(p, kind)
    THEN [profile EXCEPT ![p] = Stamped(Retagged(p, kind))]
    ELSE profile

\* last_updated is a counter here; a write needs room below MaxStamp
StampRoom(p) == profile[p].last_updated < MaxStamp

\* ProfileCreateUpdateSerializer / ProfileUpdateForm on an existing Profile:
\* the submitted fields are set on the instance, then Profile.save()
ProfileUpdate(p, ut, dob, active) ==
    LET row == [profile[p] EXCEPT !.user_type = ut, !.date_of_birth = dob,
                                  !.is_active = active]
        errs == ProfileErrors(row)
    IN  /\ p \in DOMAIN profile
        /\ StampRoom(p)
        /\ profile' = IF errs = {} THEN [profile EXCEPT ![p] = Stamped(row)]
                      ELSE profile
        /\ res' = Result("update", "profile", p, p, errs,
                         IF errs = {} THEN {"profile"} ELSE {})
        /\ UNCHANGED <<department, user, address, student, faculty, staff, alumni, session>>

\* ---------------------------------------------------------------- Student
\* Student.clean_fields: student_id not blank, academic_status a choice,
\* gpa (hundredths) within MinValueValidator(0.0)..MaxValueValidator(4.0)
StudentFieldErrors(rec) ==
    (IF Len(rec.student_id) = 0 \/ Len(rec.student_id) > IdMaxLength
     THEN {"student_id"} ELSE {})
    \cup (IF rec.academic_status \in STATUS_CHOICES THEN {} ELSE {"academic_status"})
    \cup (IF IsSet(rec.gpa) /\ (Val(rec.gpa) < 0 \/ Val(rec.gpa) > 400)
          THEN {"gpa"} ELSE {})

\* faulty variant: < in place of <= between graduation and enrollment
StudentCleanChecksStrict(rec) ==
    IF DateLT(Today, rec.enrollment_date) THEN {"enrollment_date"}
    ELSE IF IsSet(rec.expected_graduation)
            /\ DateLT(Val(rec.expected_graduation), rec.enrollment_date)
         THEN {"expected_graduation"}
    ELSE IF ~IdFormatOK("S", rec.student_id) THEN {"student_id"}
    ELSE {}

\* the checks of Student.clean before the role-tag correction: the field of
\* the first one that raises, or {} when none does
StudentCleanChecks(rec) ==
    IF DateLT(Today, rec.enrollment_date) THEN {"enrollment_date"}
    ELSE IF IsSet(rec.expected_graduation)
            /\ DateLE(Val(rec.expected_graduation), rec.enrollment_date)
         THEN {"expected_graduation"}
    ELSE IF ~IdFormatOK("S", rec.student_id) THEN {"student_id"}
    ELSE {}

\* faulty variant: unique=True left off student_id
StudentUniqueErrorsProfileOnly(p, pk, rec) ==
    IF p \in DOMAIN student /\ p # pk THEN {"profile"} ELSE {}

\* validate_unique: student_id unique, profile one-to-one; pk is the key of
\* the row being updated, None for a record not saved yet
StudentUniqueErrors(p, pk, rec) ==
    (IF \E q \in DOMAIN student : q # pk /\ student[q].student_id = rec.student_id
     THEN {"student_id"} ELSE {})
    \cup (IF p \in DOMAIN student /\ p # pk THEN {"profile"} ELSE {})

\* Student.clean: the checks, then the role-tag correction
StudentCleanErrors(p, rec) ==
    IF StudentCleanChecks(rec) # {} THEN StudentCleanChecks(rec)
    ELSE SyncErrors(p, "student")

\* faulty variant: clean() is skipped when clean_fields() has raised
StudentCleanProfilesAfterFields(p, rec) ==
    IF StudentFieldErrors(rec) # {} \/ StudentCleanChecks(rec) # {} THEN profile
    ELSE SyncedProfiles(p, "student")

\* faulty variant: the role tag is corrected before the checks run
StudentCleanProfilesFirst(p, rec) == SyncedProfiles(p, "student")

StudentCleanProfiles(p, rec) ==
    IF StudentCleanChecks(rec) # {} THEN profile
    ELSE SyncedProfiles(p, "student")

\* Student.full_clean()
StudentErrors(p, pk, rec) ==
    StudentFieldErrors(rec) \cup StudentCleanErrors(p, rec)
        \cup StudentUniqueErrors(p, pk, rec)

\* Student.save() of the record rec for Profile p
StudentSave(p, pk, rec) ==
    LET errs == StudentErrors(p, pk, rec)
    IN  /\ p \in DOMAIN profile
        /\ pk \in {None, p}
        /\ pk = p => p \in DOMAIN student
        /\ StudentCleanProfiles(p, rec) # profile => StampRoom(p)
        /\ profile' = StudentCleanProfiles(p, rec)
        /\ student' = IF errs = {} THEN Put(student, p, rec) ELSE student
        /\ res' = Result("save", "student", p, pk, errs,
                (IF StudentCleanProfiles(p, rec) # profile THEN {"profile"} ELSE {})
                \cup (IF errs = {} THEN {"student"} ELSE {}))
        /\ UNCHANGED <<department, user, address, faculty, staff, alumni, session>>

\* the form's student_id field (required, max_length), then
\* StudentRegistrationForm.clean_student_id: format, then uniqueness
StudentFormIdErrors(pk, rec) ==
    IF Len(rec.student_id) = 0 \/ Len(rec.student_id) > IdMaxLength
    THEN {"student_id"}
    ELSE IF ~IdFormatOK("S", rec.student_id) THEN {"student_id"}
    ELSE IF pk # None /\ student[pk].student_id = rec.student_id THEN {}
    ELSE IF \E q \in DOMAIN student : student[q].student_id = rec.student_id
         THEN {"student_id"}
    ELSE {}

\* StudentRegistrationForm.clean: graduation before enrollment, or the
\* duration (days / 365.25, compared in quarter days) under min_years or
\* over max_years
StudentFormDateErrors(rec) ==
    IF ~IsSet(rec.expected_graduation) THEN {}
    ELSE LET days == DaysBetween(rec.enrollment_date, Val(rec.expected_graduation))
         IN  IF \/ DateLT(Val(rec.expected_graduation), rec.enrollment_date)
                \/ 4 * days < 1461 * 2
                \/ 4 * days > 1461 * 8
             THEN {"expected_graduation"} ELSE {}

StudentFormErrors(pk, rec) ==
    StudentFormIdErrors(pk, rec) \cup StudentFormDateErrors(rec)

\* the instance the form hands to the model's validation: a field the form
\* has rejected keeps the value the instance had
StudentFormInstance(pk, rec) ==
    [rec EXCEPT
        !.student_id = IF "student_id" \in StudentFormErrors(pk, rec)
                       THEN (IF pk = None THEN <<>> ELSE student[pk].student_id)
                       ELSE @,
        !.expected_graduation =
            IF "expected_graduation" \in StudentFormErrors(pk, rec)
            THEN (IF pk = None THEN Null ELSE student[pk].expected_graduation)
            ELSE @]

\* StudentRegistrationForm: is_valid(), which also runs the model's clean()
\* on the instance, and save() when it is valid
StudentFormSave(p, pk, rec) ==
    LET ferrs == StudentFormErrors(pk, rec)
        inst == StudentFormInstance(pk, rec)
    IN  IF ferrs = {} THEN StudentSave(p, pk, rec)
        ELSE /\ p \in DOMAIN profile
             /\ pk \in {None, p}
             /\ pk = p => p \in DOMAIN student
             /\ StudentCleanProfiles(p, inst) # profile => StampRoom(p)
             /\ profile' = StudentCleanProfiles(p, inst)
             /\ res' = Result("form", "student", p, pk,
                              ferrs \cup StudentCleanErrors(p, inst),
                              IF StudentCleanProfiles(p, inst) # profile
                              THEN {"profile"} ELSE {})
             /\ UNCHANGED <<department, user, address, student, faculty, staff, alumni, session>>

\* Student.delete(): the Alumni row goes with it (on_delete=CASCADE)
StudentDelete(p) ==
    /\ p \in DOMAIN student
    /\ student' = Drop(student, p)
    /\ alumni' = Drop(alumni, p)
    /\ res' = Result("delete", "student", p, p, {},
                    {"student"} \cup (IF p \in DOMAIN alumni THEN {"alumni"} ELSE {}))
    /\ UNCHANGED <<department, user, address, profile, faculty, staff, session>>

\* StudentAdmin.mark_as_graduated / mark_as_on_leave / mark_as_active:
\* queryset.update() writes the status of the selected rows in the database;
\* no save(), no validation and no signal runs
StudentMarkAs(selected, status) ==
    /\ selected \subseteq DOMAIN student
    /\ student' = [p \in DOMAIN student |->
                      IF p \in selected
                      THEN [student[p] EXCEPT !.academic_status = status]
                      ELSE student[p]]
    /\ res' = Result("mark", "student", None, None, {},
                     IF selected = {} THEN {} ELSE {"student"})
    /\ UNCHANGED <<user, address, department, profile, faculty, staff,
                   alumni, session>>

\* Student.is_on_track() on an instance with the optional dates enrolled and
\* graduation: None when either is absent, else whether credits_completed
\* reaches 0.9 of (total_months / 6) * 15, that is 4 * credits >= 9 * months
IsOnTrack(enrolled, graduation, credits) ==
    IF ~IsSet(enrolled) \/ ~IsSet(graduation) THEN Null
    ELSE Some(4 * credits >= 9 * RelativeMonths(Val(graduation), Val(enrolled)))

\* ---------------------------------------------------------- FacultyMember
\* FacultyMember.clean_fields: faculty_id not blank, position a choice
FacultyFieldErrors(rec) ==
    (IF Len(rec.faculty_id) = 0 \/ Len(rec.faculty_id) > IdMaxLength
     THEN {"faculty_id"} ELSE {})
    \cup (IF rec.position \in POSITION_CHOICES THEN {} ELSE {"position"})

\* the check of FacultyMember.clean before the role-tag correction
FacultyCleanChecks(rec) ==
    IF DateLT(Today, rec.hire_date) THEN {"hire_date"} ELSE {}

FacultyUniqueErrors(p, pk, rec) ==
    (IF \E q \in DOMAIN faculty : q # pk /\ faculty[q].faculty_id = rec.faculty_id
     THEN {"faculty_id"} ELSE {})
    \cup (IF p \in DOMAIN faculty /\ p # pk THEN {"profile"} ELSE {})

FacultyCleanErrors(p, rec) ==
    IF FacultyCleanChecks(rec) # {} THEN FacultyCleanChecks(rec)
    ELSE SyncErrors(p, "faculty")

FacultyCleanProfiles(p, rec) ==
    IF FacultyCleanChecks(rec) # {} THEN profile
    ELSE SyncedProfiles(p, "faculty")

FacultyErrors(p, pk, rec) ==
    FacultyFieldErrors(rec) \cup FacultyCleanErrors(p, rec)
        \cup FacultyUniqueErrors(p, pk, rec)

\* FacultyMember.save()
FacultySave(p, pk, rec) ==
    LET errs == FacultyErrors(p, pk, rec)
    IN  /\ p \in DOMAIN profile
        /\ pk \in {None, p}
        /\ pk = p => p \in DOMAIN faculty
        /\ FacultyCleanProfiles(p, rec) # profile => StampRoom(p)
        /\ profile' = FacultyCleanProfiles(p, rec)
        /\ faculty' = IF errs = {} THEN Put(faculty, p, rec) ELSE faculty
        /\ res' = Result("save", "faculty", p, pk, errs,
                (IF FacultyCleanProfiles(p, rec) # profile THEN {"profile"} ELSE {})
                \cup (IF errs = {} THEN {"faculty"} ELSE {}))
        /\ UNCHANGED <<department, user, address, student, staff, alumni, session>>

FacultyDelete(p) ==
    /\ p \in DOMAIN faculty
    /\ faculty' = Drop(faculty, p)
    /\ res' = Result("delete", "faculty", p, p, {}, {"faculty"})
    /\ UNCHANGED <<department, user, address, profile, student, staff, alumni, session>>

\* the outcome of a read-only call: the method, the table, the row, the
\* current date it ran at and what it returned
Returned(op, kind, pid, today, value) ==
    [op |-> op, kind |-> kind, pid |-> pid, today |-> today, value |-> value]

\* faulty variant: the years counted from the year numbers alone
IsTenuredByYearNumber(row, today) ==
    IF row.position \in {"professor", "assoc_professor"} THEN TRUE
    ELSE IF row.position = "asst_professor"
         THEN today.y - row.hire_date.y >= 7
    ELSE FALSE

\* FacultyMember.is_tenured() at the current date today
IsTenured(row, today) ==
    IF row.position \in {"professor", "assoc_professor"} THEN TRUE
    ELSE IF row.position = "asst_professor"
         THEN RelativeYears(today, row.hire_date) >= 7
    ELSE FALSE

\* ------------------------------------------------------------ StaffMember
\* StaffMember.clean_fields: staff_id not blank, admin_level a choice
StaffFieldErrors(rec) ==
    (IF Len(rec.staff_id) = 0 \/ Len(rec.staff_id) > IdMaxLength
     THEN {"staff_id"} ELSE {})
    \cup (IF rec.admin_level \in ADMIN_LEVEL_CHOICES THEN {} ELSE {"admin_level"})

\* faulty variant: an if in place of the while, only the proposed supervisor is looked at
WalkOneStep(s, seen) == s # None /\ s \in seen

\* the while loop of StaffMember.clean over the stored supervisor links:
\* TRUE when it raises (s is in seen), FALSE when it runs off the chain's end
RECURSIVE WalkRaises(_, _)
WalkRaises(s, seen) ==
    IF s = None THEN FALSE
    ELSE IF s \in seen THEN TRUE
    ELSE WalkRaises(staff[s].supervisor, seen \cup {s})

\* iterations the model lets the while loop run before it calls it endless
WalkLimit == Cardinality(DOMAIN staff) + 3

\* faulty variant: the visited supervisor is never added to seen_supervisors
RECURSIVE WalkForgetful(_, _, _)
WalkForgetful(s, seen, n) ==
    IF s = None THEN [end |-> "top", steps |-> n]
    ELSE IF n >= WalkLimit THEN [end |-> "running", steps |-> n]
    ELSE IF s \in seen THEN [end |-> "raise", steps |-> n + 1]
    ELSE WalkForgetful(staff[s].supervisor, seen, n + 1)

\* the same while loop, iteration by iteration: how it ends ("top": a record
\* with no supervisor was reached, "raise": the circular-hierarchy error)
\* and how many supervisor records it has looked at
RECURSIVE Walk(_, _, _)
Walk(s, seen, n) ==
    IF s = None THEN [end |-> "top", steps |-> n]
    ELSE IF n >= WalkLimit THEN [end |-> "running", steps |-> n]
    ELSE IF s \in seen THEN [end |-> "raise", steps |-> n + 1]
    ELSE Walk(staff[s].supervisor, seen \cup {s}, n + 1)

\* faulty variant: seen_supervisors starts empty, without the record's own id
StaffCleanChecksUnseeded(pk, rec) ==
    IF DateLT(Today, rec.hire_date) THEN {"hire_date"}
    ELSE IF rec.supervisor # None /\ rec.supervisor = pk THEN {"supervisor"}
    ELSE IF rec.supervisor # None /\ WalkRaises(rec.supervisor, {})
         THEN {"supervisor"}
    ELSE {}

\* faulty variant: the self-supervision check alone, without the walk up the chain
StaffCleanChecksSelfOnly(pk, rec) ==
    IF DateLT(Today, rec.hire_date) THEN {"hire_date"}
    ELSE IF rec.supervisor # None /\ rec.supervisor = pk THEN {"supervisor"}
    ELSE {}

\* the checks of StaffMember.clean before the role-tag correction
StaffCleanChecks(pk, rec) ==
    IF DateLT(Today, rec.hire_date) THEN {"hire_date"}
    ELSE IF rec.supervisor # None /\ rec.supervisor = pk THEN {"supervisor"}
    ELSE IF rec.supervisor # None /\ WalkRaises(rec.supervisor, {pk})
         THEN {"supervisor"}
    ELSE {}

StaffUniqueErrors(p, pk, rec) ==
    (IF \E q \in DOMAIN staff : q # pk /\ staff[q].staff_id = rec.staff_id
     THEN {"staff_id"} ELSE {})
    \cup (IF p \in DOMAIN staff /\ p # pk THEN {"profile"} ELSE {})

StaffCleanErrors(p, pk, rec) ==
    IF StaffCleanChecks(pk, rec) # {} THEN StaffCleanChecks(pk, rec)
    ELSE SyncErrors(p, "staff")

\* faulty variant: the role-tag correction placed before the checks
StaffCleanProfilesFirst(p, pk, rec) == SyncedProfiles(p, "staff")

StaffCleanProfiles(p, pk, rec) ==
    IF StaffCleanChecks(pk, rec) # {} THEN profile
    ELSE SyncedProfiles(p, "staff")

StaffErrors(p, pk, rec) ==
    StaffFieldErrors(rec) \cup StaffCleanErrors(p, pk, rec)
        \cup StaffUniqueErrors(p, pk, rec)

\* StaffMember.save(); the supervisor is a stored staff row or None
StaffSave(p, pk, rec) ==
    LET errs == StaffErrors(p, pk, rec)
    IN  /\ p \in DOMAIN profile
        /\ pk \in {None, p}
        /\ pk = p => p \in DOMAIN staff
        /\ rec.supervisor \in DOMAIN staff \cup {None}
        /\ StaffCleanProfiles(p, pk, rec) # profile => StampRoom(p)
        /\ profile' = StaffCleanProfiles(p, pk, rec)
        /\ staff' = IF errs = {} THEN Put(staff, p, rec) ELSE staff
        /\ res' = Result("save", "staff", p, pk, errs,
                (IF StaffCleanProfiles(p, pk, rec) # profile THEN {"profile"} ELSE {})
                \cup (IF errs = {} THEN {"staff"} ELSE {}))
        /\ UNCHANGED <<department, user, address, student, faculty, alumni, session>>

\* faulty variant: a supervisor of the same access level is rejected too
StaffFormErrorsStrict(pk, rec) ==
    (IF Len(rec.staff_id) = 0 \/ Len(rec.staff_id) > IdMaxLength
     THEN {"staff_id"}
     ELSE IF ~IdFormatOK("A", rec.staff_id) THEN {"staff_id"}
     ELSE IF pk # None /\ staff[pk].staff_id = rec.staff_id THEN {}
     ELSE IF \E q \in DOMAIN staff : staff[q].staff_id = rec.staff_id
          THEN {"staff_id"}
     ELSE {})
    \cup (IF rec.supervisor # None /\ rec.admin_level # 0
              /\ staff[rec.supervisor].admin_level <= rec.admin_level
          THEN {"supervisor"} ELSE {})

\* StaffRegistrationForm.clean_staff_id and clean: the fields they reject
StaffFormErrors(pk, rec) ==
    (IF Len(rec.staff_id) = 0 \/ Len(rec.staff_id) > IdMaxLength
     THEN {"staff_id"}
     ELSE IF ~IdFormatOK("A", rec.staff_id) THEN {"staff_id"}
     ELSE IF pk # None /\ staff[pk].staff_id = rec.staff_id THEN {}
     ELSE IF \E q \in DOMAIN staff : staff[q].staff_id = rec.staff_id
          THEN {"staff_id"}
     ELSE {})
    \cup (IF rec.supervisor # None /\ rec.admin_level # 0
              /\ staff[rec.supervisor].admin_level < rec.admin_level
          THEN {"supervisor"} ELSE {})

\* the instance the form hands to the model's validation: a field the form
\* has rejected keeps the value the instance had
StaffFormInstance(pk, rec) ==
    [rec EXCEPT
        !.staff_id = IF "staff_id" \in StaffFormErrors(pk, rec)
                     THEN (IF pk = None THEN <<>> ELSE staff[pk].staff_id)
                     ELSE @,
        !.supervisor = IF "supervisor" \in StaffFormErrors(pk, rec)
                       THEN (IF pk = None THEN None ELSE staff[pk].supervisor)
                       ELSE @]

\* StaffRegistrationForm: is_valid(), which also runs the model's clean()
\* on the instance, and save() when it is valid
StaffFormSave(p, pk, rec) ==
    LET ferrs == StaffFormErrors(pk, rec)
        inst == StaffFormInstance(pk, rec)
    IN  IF ferrs = {} THEN StaffSave(p, pk, rec)
        ELSE /\ p \in DOMAIN profile
             /\ pk \in {None, p}
             /\ pk = p => p \in DOMAIN staff
             /\ rec.supervisor \in DOMAIN staff \cup {None}
             /\ StaffCleanProfiles(p, pk, inst) # profile => StampRoom(p)
             /\ profile' = StaffCleanProfiles(p, pk, inst)
             /\ res' = Result("form", "staff", p, pk,
                              ferrs \cup StaffCleanErrors(p, pk, inst),
                              IF StaffCleanProfiles(p, pk, inst) # profile
                              THEN {"profile"} ELSE {})
             /\ UNCHANGED <<department, user, address, student, faculty, staff, alumni, session>>

\* StaffMember.delete(): subordinates stay, their supervisor set to NULL
StaffDelete(p) ==
    /\ p \in DOMAIN staff
    /\ staff' = [q \in DOMAIN staff \ {p} |->
                    IF staff[q].supervisor = p
                    THEN [staff[q] EXCEPT !.supervisor = None]
                    ELSE staff[q]]
    /\ res' = Result("delete", "staff", p, p, {}, {"staff"})
    /\ UNCHANGED <<department, user, address, profile, student, faculty, alumni, session>>

\* ----------------------------------------------------------------- Alumni
FoundingYear == 1950

\* Alumni.clean_fields: graduation_year a PositiveIntegerField,
\* engagement_level one of the choices 1..3
AlumniFieldErrors(rec) ==
    (IF rec.graduation_year < 0 THEN {"graduation_year"} ELSE {})
    \cup (IF rec.engagement_level \in 1..3 THEN {} ELSE {"engagement_level"})

\* faulty variant: the comparison with the enrollment year left out
AlumniCleanErrorsNoEnrollment(st, rec) ==
    IF rec.graduation_year > Today.y THEN {"graduation_year"}
    ELSE IF rec.graduation_year < FoundingYear THEN {"graduation_year"}
    ELSE IF IsSet(rec.last_contact_date)
            /\ DateLT(Today, Val(rec.last_contact_date))
         THEN {"last_contact_date"}
    ELSE {}

\* Alumni.clean, for the Student row st it is linked to
AlumniCleanErrors(st, rec) ==
    IF rec.graduation_year > Today.y THEN {"graduation_year"}
    ELSE IF rec.graduation_year < FoundingYear THEN {"graduation_year"}
    ELSE IF rec.graduation_year < st.enrollment_date.y THEN {"graduation_year"}
    ELSE IF IsSet(rec.last_contact_date)
            /\ DateLT(Today, Val(rec.last_contact_date))
         THEN {"last_contact_date"}
    ELSE {}

\* validate_unique: student is one-to-one
AlumniUniqueErrors(p, pk) ==
    IF p \in DOMAIN alumni /\ p # pk THEN {"student"} ELSE {}

\* Alumni.full_clean()
AlumniErrors(p, pk, rec) ==
    AlumniFieldErrors(rec) \cup AlumniCleanErrors(student[p], rec)
        \cup AlumniUniqueErrors(p, pk)

\* Alumni.update_student_status: the Student row it saves, when it saves one
NeedsGraduation(p) == student[p].academic_status # "graduated"

\* faulty variant: the status is compared and never assigned
GraduatedUnassigned(p) == student[p]

Graduated(p) == [student[p] EXCEPT !.academic_status = "graduated"]

\* faulty variant: the status cascade runs before the validation
AlumniSaveCascadeFirst(p, pk, rec) ==
    LET errs == AlumniErrors(p, pk, rec)
        cascade == NeedsGraduation(p)
    IN  /\ p \in DOMAIN student
        /\ pk \in {None, p}
        /\ pk = p => p \in DOMAIN alumni
        /\ cascade /\ StudentCleanProfiles(p, Graduated(p)) # profile
              => StampRoom(p)
        /\ profile' = IF cascade THEN StudentCleanProfiles(p, Graduated(p))
                      ELSE profile
        /\ student' = IF cascade THEN Put(student, p, Graduated(p))
                      ELSE student
        /\ alumni' = IF errs = {} THEN Put(alumni, p, rec) ELSE alumni
        /\ res' = Result("save", "alumni", p, pk, errs,
                         (IF cascade THEN {"student"} ELSE {})
                         \cup (IF errs = {} THEN {"alumni"} ELSE {}))
        /\ UNCHANGED <<user, address, department, faculty, staff, session>>

\* Alumni.save(): full_clean(), update_student_status() (a Student.save(),
\* which validates the Student and corrects the role tag; what it raises
\* ends Alumni.save() before the Alumni row is written), then the row
AlumniSave(p, pk, rec) ==
    LET errs == AlumniErrors(p, pk, rec)
        cascade == errs = {} /\ NeedsGraduation(p)
        serrs == IF cascade THEN StudentErrors(p, p, Graduated(p)) ELSE {}
    IN  /\ p \in DOMAIN student
        /\ pk \in {None, p}
        /\ pk = p => p \in DOMAIN alumni
        /\ cascade /\ StudentCleanProfiles(p, Graduated(p)) # profile
              => StampRoom(p)
        /\ profile' = IF cascade THEN StudentCleanProfiles(p, Graduated(p))
                      ELSE profile
        /\ student' = IF cascade /\ serrs = {}
                      THEN Put(student, p, Graduated(p)) ELSE student
        /\ alumni' = IF errs = {} /\ serrs = {} THEN Put(alumni, p, rec)
                     ELSE alumni
        /\ res' = Result("save", "alumni", p, pk, errs \cup serrs,
                (IF cascade /\ StudentCleanProfiles(p, Graduated(p)) # profile
                 THEN {"profile"} ELSE {})
                \cup (IF cascade /\ serrs = {} THEN {"student"} ELSE {})
                \cup (IF errs = {} /\ serrs = {} THEN {"alumni"} ELSE {}))
        /\ UNCHANGED <<department, user, address, faculty, staff, session>>

\* faulty variant: every selected record is raised, whatever its level
AlumniEngageUnfiltered(selected) ==
    /\ selected \subseteq DOMAIN alumni
    /\ alumni' = [p \in DOMAIN alumni |->
                     IF p \in selected
                     THEN [alumni[p] EXCEPT !.engagement_level = @ + 1]
                     ELSE alumni[p]]
    /\ res' = Returned("update_engagement_level", "alumni", selected, Today,
                       Cardinality(selected))
    /\ UNCHANGED <<user, address, department, profile, student, faculty,
                   staff, session>>

\* AlumniAdmin.update_engagement_level: of the selected records, those with
\* engagement_level < 3 are updated to engagement_level + 1 in the database
AlumniEngage(selected) ==
    LET raised == {p \in selected : alumni[p].engagement_level < 3}
    IN  /\ selected \subseteq DOMAIN alumni
        /\ alumni' = [p \in DOMAIN alumni |->
                         IF p \in raised
                         THEN [alumni[p] EXCEPT !.engagement_level = @ + 1]
                         ELSE alumni[p]]
        /\ res' = Returned("update_engagement_level", "alumni", selected,
                           Today, Cardinality(raised))
        /\ UNCHANGED <<user, address, department, profile, student, faculty,
                       staff, session>>

\* ------------------------------------------------------ User and Address
\* the staff table once the rows in gone are deleted: the rows that had one
\* of them as supervisor stay, the reference set to NULL (SET_NULL)
StaffWithout(gone) ==
    [q \in DOMAIN staff \ gone |->
        IF staff[q].supervisor \in gone
        THEN [staff[q] EXCEPT !.supervisor = None]
        ELSE staff[q]]

\* faulty variant: the User row is written and no Profile is created for it
UserCreateNoProfile(u) ==
    /\ u \notin user
    /\ user' = user \cup {u}
    /\ res' = Result("create", "user", u, None, {}, {"user"})
    /\ UNCHANGED <<department, address, profile, student, faculty, staff, alumni, session>>

\* User.save() of a new user: post_save runs create_user_profile, which
\* creates the Profile, then save_user_profile, which saves it once more
UserCreate(u) ==
    /\ u \notin user
    /\ user' = user \cup {u}
    /\ profile' = Put(profile, u, Stamped(NewProfile))
    /\ res' = Result("create", "user", u, None, {}, {"user", "profile"})
    /\ UNCHANGED <<department, address, student, faculty, staff, alumni, session>>

\* User.save() of a stored user: post_save runs save_user_profile, which
\* saves the Profile if the user has one; what Profile.full_clean() raises
\* comes out of User.save()
UserSave(u) ==
    /\ u \in user
    /\ u \in DOMAIN profile => StampRoom(u)
    /\ profile' = IF u \in DOMAIN profile /\ ProfileErrors(profile[u]) = {}
                  THEN [profile EXCEPT ![u] = Stamped(@)]
                  ELSE profile
    /\ res' = Result("save", "user", u, u,
                     IF u \in DOMAIN profile THEN ProfileErrors(profile[u])
                     ELSE {},
                     {"user"} \cup {t \in {"profile"} : profile' # profile})
    /\ UNCHANGED <<department, user, address, student, faculty, staff, alumni, session>>

\* faulty variant: the Profile goes with the User, the rows that hang on the
\* Profile are left behind
UserDeleteProfileOnly(u) ==
    /\ u \in user
    /\ user' = user \ {u}
    /\ profile' = Drop(profile, u)
    /\ res' = Result("delete", "user", u, u, {}, {"user", "profile"})
    /\ UNCHANGED <<department, address, student, faculty, staff, alumni, session>>

\* User.delete(): the Profile goes with it (Profile.user CASCADE), with the
\* Profile its role records (profile CASCADE), with the Student its Alumni
\* row (student CASCADE)
UserDelete(u) ==
    /\ u \in user
    /\ user' = user \ {u}
    /\ profile' = Drop(profile, u)
    /\ student' = Drop(student, u)
    /\ faculty' = Drop(faculty, u)
    /\ staff' = StaffWithout({u})
    /\ alumni' = Drop(alumni, u)
    /\ res' = Result("delete", "user", u, u, {},
                     {"user"} \cup {t \in {"profile"} : u \in DOMAIN profile}
                         \cup {t \in {"student"} : u \in DOMAIN student}
                         \cup {t \in {"faculty"} : u \in DOMAIN faculty}
                         \cup {t \in {"staff"} : u \in DOMAIN staff}
                         \cup {t \in {"alumni"} : u \in DOMAIN alumni})
    /\ UNCHANGED <<department, address, session>>

\* Address.delete(): the Profiles that reference it stay, the reference set
\* to NULL by an UPDATE (Profile.address SET_NULL; no Profile.save())
AddressDelete(a) ==
    /\ a \in address
    /\ address' = address \ {a}
    /\ profile' = [q \in DOMAIN profile |->
                      IF profile[q].address = a
                      THEN [profile[q] EXCEPT !.address = None]
                      ELSE profile[q]]
    /\ res' = Result("delete", "address", a, a, {},
                     {"address"} \cup {t \in {"profile"} : profile' # profile})
    /\ UNCHANGED <<department, user, student, faculty, staff, alumni, session>>

\* ------------------------------------------------------------- Department
\* the unique index on Department.name: the rows other than pk that hold
\* the name
NameTaken(pk, name) ==
    \E q \in DOMAIN department : q # pk /\ department[q].name = name

\* faulty variant: the row is inserted whatever names are stored
DepartmentCreateUnchecked(name, description) ==
    LET pk == Cardinality(DOMAIN department) + 1
    IN  /\ pk <= NDepartments
        /\ department' = Put(department, pk,
                             [name |-> name, description |-> description])
        /\ res' = Result("create", "department", None, pk, {}, {"department"})
        /\ UNCHANGED <<user, address, profile, student, faculty, staff,
                       alumni, session>>

\* Department.objects.create(): save() inserts the row with the next id;
\* the insert of a name that is stored raises IntegrityError
DepartmentCreate(name, description) ==
    LET pk == Cardinality(DOMAIN department) + 1
    IN  /\ pk <= NDepartments
        /\ department' = IF NameTaken(None, name) THEN department
                         ELSE Put(department, pk,
                                  [name |-> name, description |-> description])
        /\ res' = IF NameTaken(None, name)
                  THEN Result("create", "department", None, None, {"name"}, {})
                  ELSE Result("create", "department", None, pk, {},
                              {"department"})
        /\ UNCHANGED <<user, address, profile, student, faculty, staff,
                       alumni, session>>

\* Department.save() of a stored row with its fields changed
DepartmentSave(pk, name, description) ==
    /\ pk \in DOMAIN department
    /\ department' = IF NameTaken(pk, name) THEN department
                     ELSE [department EXCEPT
                              ![pk] = [name |-> name,
                                       description |-> description]]
    /\ res' = IF NameTaken(pk, name)
              THEN Result("save", "department", None, pk, {"name"}, {})
              ELSE Result("save", "department", None, pk, {}, {"department"})
    /\ UNCHANGED <<user, address, profile, student, faculty, staff, alumni,
                   session>>

\* ------------------------------------------------------- submitted records
Past == Date(2024, 9, 1)
Future == Date(2027, 9, 1)

Id(prefix, digit) == <<prefix, digit>>

StudentRec(id, enrolled, gpa) ==
    [student_id |-> id, enrollment_date |-> enrolled,
     expected_graduation |-> Null, academic_status |-> "active", gpa |-> gpa]

FacultyRec(id, hired) ==
    [faculty_id |-> id, position |-> "lecturer", hire_date |-> hired]

StaffRec(id, hired, sup) ==
    [staff_id |-> id, hire_date |-> hired, supervisor |-> sup,
     admin_level |-> 1]

\* the two requests that may be in flight at once
Threads == {"t1", "t2"}

\* a request that holds nothing validated
NoTxn == [p |-> None, rec |-> StaffRec(<<>>, Past, None), stale |-> FALSE]

\* no request in flight; raced: a row was written on a validation that an
\* earlier write had outdated
NoSession == [pending |-> [t \in Threads |-> NoTxn], raced |-> FALSE]

\* a request that holds a Student instance for Profile p together with the
\* Profile instance it loaded for it
Held(p, copy) == [p |-> p, copy |-> copy]

\* the request loads the Profile p and builds a Student instance on it
StudentLoad(p) ==
    /\ p \in DOMAIN profile
    /\ session' = Held(p, profile[p])
    /\ res' = Result("load", "student", p, None, {}, {})
    /\ UNCHANGED store

\* Student.save() of the record rec on the instance held: clean() compares
\* and sets the tag on the Profile instance loaded earlier, and
\* Profile.save() writes every field of that instance
StudentSaveHeld(rec) ==
    LET p == session.p
        pk == IF p \in DOMAIN student THEN p ELSE None
        checks == StudentCleanChecks(rec)
        row == [session.copy EXCEPT !.user_type = "student"]
        stale == session.copy.user_type # "student"
        perrs == IF checks = {} /\ stale THEN ProfileErrors(row) ELSE {}
        writes == checks = {} /\ stale /\ perrs = {}
        errs == StudentFieldErrors(rec)
                    \cup (IF checks # {} THEN checks ELSE perrs)
                    \cup StudentUniqueErrors(p, pk, rec)
    IN  /\ writes => StampRoom(p)
        /\ profile' = IF writes
                      THEN [profile EXCEPT
                               ![p] = [row EXCEPT !.last_updated =
                                          profile[p].last_updated + 1]]
                      ELSE profile
        /\ student' = IF errs = {} THEN Put(student, p, rec) ELSE student
        /\ session' = NoSession
        /\ res' = Result("save", "student", p, pk, errs,
                         (IF writes THEN {"profile"} ELSE {})
                         \cup (IF errs = {} THEN {"student"} ELSE {}))
        /\ UNCHANGED <<user, address, department, faculty, staff, alumni>>

\* ------------------------------------------ specification: role lifecycle
\* The users 1..NRole have Profiles and no role record yet; three other
\* users already hold a Student, a FacultyMember and a StaffMember record
\* with the identifiers S9, F9 and A9.  Callers update the Profiles of the
\* first and create, update and delete role records of all three kinds for
\* them, with valid and invalid submissions.
Members == 1..NRole

RoleStudentInputs ==
    {StudentRec(Id("S", d), Past, g) :
        d \in {"1", "9"}, g \in {Some(350), Some(450)}}
        \cup {StudentRec(Id("S", "1"), Future, Some(350))}

RoleFacultyInputs ==
    {FacultyRec(Id("F", d), Past) : d \in {"1", "9"}}
        \cup {FacultyRec(Id("F", "1"), Future),
              [FacultyRec(Id("F", "1"), Past) EXCEPT !.position = "dean"]}

RoleStaffInputs ==
    {StaffRec(Id("A", d), Past, None) : d \in {"1", "9"}}
        \cup {StaffRec(Id("A", "1"), Future, None),
              [StaffRec(Id("A", "1"), Past, None) EXCEPT !.admin_level = 5]}

Tagged(kind) == [NewProfile EXCEPT !.user_type = kind, !.last_updated = 1]

Init ==
    /\ profile = [p \in 1..(NRole + 3) |->
                    CASE p = NRole + 1 -> Tagged("student")
                      [] p = NRole + 2 -> Tagged("faculty")
                      [] p = NRole + 3 -> Tagged("staff")
                      [] OTHER -> NewProfile]
    /\ student = Put(EmptyTable, NRole + 1, StudentRec(Id("S", "9"), Past, Some(350)))
    /\ faculty = Put(EmptyTable, NRole + 2, FacultyRec(Id("F", "9"), Past))
    /\ staff = Put(EmptyTable, NRole + 3, StaffRec(Id("A", "9"), Past, None))
    /\ alumni = EmptyTable
    /\ session = NoSession
    /\ department = EmptyTable
    /\ user = DOMAIN profile
    /\ address = {}
    /\ res = Result("init", "none", None, None, {}, {})

DoProfileUpdate ==
    \E p \in Members, ut \in USER_TYPE_CHOICES, dob \in {Null, Some(Future)} :
        ProfileUpdate(p, ut, dob, TRUE)

DoStudentSave ==
    \E p \in Members, rec \in RoleStudentInputs :
        \E pk \in {None, p} : StudentSave(p, pk, rec)

DoFacultySave ==
    \E p \in Members, rec \in RoleFacultyInputs :
        \E pk \in {None, p} : FacultySave(p, pk, rec)

DoStaffSave ==
    \E p \in Members, rec \in RoleStaffInputs :
        \E pk \in {None, p} : StaffSave(p, pk, rec)

DoStudentDelete == \E p \in Members : StudentDelete(p)

DoFacultyDelete == \E p \in Members : FacultyDelete(p)

DoStaffDelete == \E p \in Members : StaffDelete(p)

Next ==
    \/ DoProfileUpdate
    \/ DoStudentSave
    \/ DoFacultySave
    \/ DoStaffSave
    \/ DoStudentDelete
    \/ DoFacultyDelete
    \/ DoStaffDelete

Spec == Init /\ [][Next]_vars

\* ------------------------------------------------- claims: role lifecycle
Kinds == {"student", "faculty", "staff"}

\* the kinds of role record attached to Profile p
Attached(p) ==
    (IF p \in DOMAIN student THEN {"student"} ELSE {})
    \cup (IF p \in DOMAIN faculty THEN {"faculty"} ELSE {})
    \cup (IF p \in DOMAIN staff THEN {"staff"} ELSE {})

RoleSaved == res.op = "save" /\ res.kind \in Kinds

\* the fields of a role record of each kind, as full_clean() names them
OwnFields ==
    {"student_id", "enrollment_date", "expected_graduation", "academic_status",
     "gpa", "faculty_id", "position", "hire_date", "staff_id", "supervisor",
     "admin_level", "profile"}

\* C4: every Profile that has a role record attached has the role tag of
\* that record's kind.
C4_TagMatchesRecord ==
    \A p \in DOMAIN profile : \A k \in Attached(p) : profile[p].user_type = k

\* C5: a Profile has at most one role record across the three kinds.
C5_AtMostOneRole ==
    \A p \in DOMAIN profile : Cardinality(Attached(p)) <= 1

\* C6: after a successful save of a role record of kind K the Profile's
\* stored role tag is K; and a save is rejected only for errors on the role
\* record's own fields, never for the Profile's tag.
C6_SaveSetsTag ==
    RoleSaved =>
        /\ res.errs = {} => profile[res.pid].user_type = res.kind
        /\ res.errs \subseteq OwnFields

\* a role record was saved for a Profile whose tag had been set to another
\* role by a Profile update (two writes of the Profile: that one and the
\* correction)
C6_Witness ==
    /\ RoleSaved /\ res.errs = {} /\ res.kind = "faculty"
    /\ profile[res.pid].user_type = "faculty"
    /\ profile[res.pid].last_updated = 2
    /\ res.pid \in DOMAIN student

\* C8: the save of a role record of kind K for a Profile whose tag already
\* is K leaves the Profile table as it was, last_updated included.
C8_NoProfileWrite ==
    [][(/\ res'.op = "save"
        /\ res'.kind \in Kinds
        /\ profile[res'.pid].user_type = res'.kind)
          => profile' = profile]_vars

\* a stored Student was saved again and the Profile has been written once
\* only, by the correction when the Student was created: the later save
\* found the tag "student" and wrote nothing
C8_Witness ==
    /\ res.op = "save" /\ res.kind = "student" /\ res.errs = {}
    /\ res.pk # None
    /\ profile[res.pid].user_type = "student"
    /\ profile[res.pid].last_updated = 1

\* C7: when a role-record save fails after clean() has passed (a field
\* validator or a uniqueness check raised), the Profile's tag is the record's
\* kind all the same, written by clean(), and no role row was written.
PostCleanFields ==
    {"gpa", "academic_status", "position", "admin_level", "student_id",
     "faculty_id", "staff_id", "profile"}

C7_TagWrittenThoughSaveFails ==
    [][(/\ res'.op = "save" /\ res'.kind \in Kinds
        /\ res'.errs # {} /\ res'.errs \subseteq PostCleanFields)
       => /\ profile'[res'.pid].user_type = res'.kind
          /\ profile[res'.pid].user_type # res'.kind
                => profile'[res'.pid].last_updated
                       = profile[res'.pid].last_updated + 1
          /\ <<student', faculty', staff'>> = <<student, faculty, staff>>]_vars

\* a Student with the student_id of a stored Student was submitted for a
\* Profile without a Student: the save failed on student_id, the Profile row
\* was written and carries the tag, and the Profile has no Student row
C7_Witness ==
    /\ res.op = "save" /\ res.kind = "student" /\ res.errs = {"student_id"}
    /\ res.wrote = {"profile"}
    /\ profile[res.pid].user_type = "student"
    /\ res.pid \notin DOMAIN student

\* ----------------------------------------- specification: staff hierarchy
\* Staff records are created, given supervisors, updated and deleted, one
\* operation at a time; the Profile of user 1 is also edited by its owner.
DigitOf == <<"1", "2", "3", "4", "5", "6", "7", "8", "9">>

\* every stored row or none as the supervisor; a hire date in the future
\* with no supervisor and with the row itself as its supervisor
StaffInputs(p) ==
    {StaffRec(Id("A", DigitOf[p]), Past, sup) : sup \in DOMAIN staff \cup {None}}
        \cup {StaffRec(Id("A", DigitOf[p]), Future, sup) :
                  sup \in (DOMAIN staff \cap {p}) \cup {None}}

InitStaff ==
    /\ profile = [p \in Profiles |->
                    IF p = 1 THEN [NewProfile EXCEPT !.user_type = "staff"]
                    ELSE NewProfile]
    /\ student = EmptyTable
    /\ faculty = EmptyTable
    /\ staff = EmptyTable
    /\ alumni = EmptyTable
    /\ session = NoSession
    /\ department = EmptyTable
    /\ user = DOMAIN profile
    /\ address = {}
    /\ res = Result("init", "none", None, None, {}, {})

StaffCreate ==
    \E p \in DOMAIN profile \ DOMAIN staff :
        \E rec \in StaffInputs(p) : StaffSave(p, None, rec)

StaffUpdate ==
    \E p \in DOMAIN staff : \E rec \in StaffInputs(p) : StaffSave(p, p, rec)

StaffRemove == \E p \in DOMAIN staff : StaffDelete(p)

StaffOwnerEdit == ProfileUpdate(1, "other", Null, TRUE)

NextStaff ==
    \/ StaffCreate
    \/ StaffUpdate
    \/ StaffRemove
    \/ StaffOwnerEdit

SpecStaff == InitStaff /\ [][NextStaff]_vars

\* ------------------------------------------------ claims: staff hierarchy
\* following supervisor links from s reaches target within fuel steps
RECURSIVE ChainReaches(_, _, _)
ChainReaches(s, target, fuel) ==
    /\ s # None
    /\ fuel > 0
    /\ \/ s = target
       \/ ChainReaches(staff[s].supervisor, target, fuel - 1)

OnCycle(p) == ChainReaches(staff[p].supervisor, p, Cardinality(DOMAIN staff))

\* C1: the stored supervisor relation is acyclic: no staff row is its own
\* supervisor, and the supervisor links from a row never lead back to it.
C1_Acyclic == \A p \in DOMAIN staff : ~OnCycle(p)

\* a chain of two supervisor links is stored and the update that would have
\* closed it into a cycle has just been rejected
C1_Witness ==
    /\ res.op = "save" /\ res.kind = "staff" /\ "supervisor" \in res.errs
    /\ \E a, b, c \in DOMAIN staff :
          /\ a = res.pid /\ a # b /\ b # c /\ a # c
          /\ staff[c].supervisor = b /\ staff[b].supervisor = a

\* the proposed supervisor sup closes a cycle through the stored row pk
ClosesCycle(pk, sup) ==
    /\ pk # None
    /\ sup # None
    /\ ChainReaches(sup, pk, Cardinality(DOMAIN staff) + 1)

\* C2: with every other field valid, a StaffMember save is rejected with an
\* error on 'supervisor' exactly when the proposed supervisor is the record
\* itself or the record is reachable from it by supervisor links; otherwise
\* it succeeds and the row holds the proposed supervisor.
C2_RejectedIffCycle ==
    [][(res'.op = "save" /\ res'.kind = "staff") =>
          LET p == res'.pid
              pk == res'.pk
          IN  \A rec \in StaffInputs(p) :
                (/\ rec.hire_date = Past
                 /\ pk = None => p \notin DOMAIN staff
                 /\ staff' = staff \/ staff' = Put(staff, p, rec)
                 /\ StaffSave(p, pk, rec))
                => IF ClosesCycle(pk, rec.supervisor)
                   THEN res'.errs = {"supervisor"} /\ staff' = staff
                   ELSE /\ res'.errs = {}
                        /\ p \in DOMAIN staff'
                        /\ staff'[p] = rec]_vars

\* A = 1 has no supervisor, B = 2 has supervisor A, C = 3 has supervisor B,
\* and a save of A has been rejected on 'supervisor'
C2_Witness ==
    /\ {1, 2, 3} \subseteq DOMAIN staff
    /\ staff[1].supervisor = None
    /\ staff[2].supervisor = 1
    /\ staff[3].supervisor = 2
    /\ res = Result("save", "staff", 1, 1, {"supervisor"}, {})

\* C3: a StaffMember save that fails with a hierarchy error writes nothing:
\* no staff row is created or changed and no Profile is written.
C3_HierarchyErrorWritesNothing ==
    [][(res'.op = "save" /\ res'.kind = "staff" /\ "supervisor" \in res'.errs)
          => store' = store]_vars

\* a save failed with a hierarchy error while the Profile's tag was not
\* "staff": the tag is still what it was
C3_Witness ==
    /\ res.op = "save" /\ res.kind = "staff" /\ "supervisor" \in res.errs
    /\ profile[res.pid].user_type = "other"

\* ---------------------------------------------------- specification: alumni
\* Students are enrolled and updated with any status, graduates get Alumni
\* records (with valid and invalid graduation years), Profiles are edited.
AlumniRec(year, contact) ==
    [graduation_year |-> year, last_contact_date |-> contact,
     engagement_level |-> 1]

AlumniInputs ==
    {AlumniRec(y, Null) : y \in {1949, 2023, 2025, 2027}}
        \cup {AlumniRec(2025, Some(Future))}

AlumniStudentInputs(p) ==
    {[StudentRec(Id("S", DigitOf[p]), Past, Some(350))
         EXCEPT !.academic_status = st] :
        st \in {"active", "on_leave", "graduated"}}

InitAlumni ==
    /\ profile = [p \in Members |-> NewProfile]
    /\ student = EmptyTable
    /\ faculty = EmptyTable
    /\ staff = EmptyTable
    /\ alumni = EmptyTable
    /\ session = NoSession
    /\ department = EmptyTable
    /\ user = DOMAIN profile
    /\ address = {}
    /\ res = Result("init", "none", None, None, {}, {})

Enroll ==
    \E p \in Members : \E rec \in AlumniStudentInputs(p) : StudentSave(p, None, rec)

StudentEdit ==
    \E p \in DOMAIN student : \E rec \in AlumniStudentInputs(p) :
        StudentSave(p, p, rec)

Unenroll == \E p \in DOMAIN student : StudentDelete(p)

AlumniCreate ==
    \E p \in DOMAIN student, rec \in AlumniInputs : AlumniSave(p, None, rec)

AlumniUpdate ==
    \E p \in DOMAIN alumni, rec \in AlumniInputs : AlumniSave(p, p, rec)

OwnerEdit == \E p \in Members : ProfileUpdate(p, "other", Null, TRUE)

NextAlumni ==
    \/ Enroll
    \/ StudentEdit
    \/ Unenroll
    \/ AlumniCreate
    \/ AlumniUpdate
    \/ OwnerEdit

SpecAlumni == InitAlumni /\ [][NextAlumni]_vars

\* ----------------------------------------------------------- claims: alumni
\* C9: after every successful Alumni.save() the linked Student's stored
\* academic_status is 'graduated' (and the Alumni row is stored).
C9_AlumniSaveGraduates ==
    (res.op = "save" /\ res.kind = "alumni" /\ res.errs = {})
        => /\ res.pid \in DOMAIN alumni
           /\ student[res.pid].academic_status = "graduated"

\* an Alumni record was created for a Student that was not 'graduated': the
\* cascade wrote the Student row
C9_Witness ==
    /\ res = Result("save", "alumni", res.pid, None, {}, {"student", "alumni"})
    /\ res.pid \in DOMAIN alumni
    /\ student[res.pid].academic_status = "graduated"

\* C29: an Alumni.save() rejected on graduation_year or last_contact_date
\* leaves the Student table and the Alumni table as they were, and no
\* rejected Alumni.save() writes an Alumni row.
C29_RejectedAlumniWritesNothing ==
    [][(res'.op = "save" /\ res'.kind = "alumni" /\ res'.errs # {}) =>
          /\ alumni' = alumni
          /\ res'.errs \cap {"graduation_year", "last_contact_date"} # {}
                => (student' = student /\ res'.wrote = {})]_vars

\* an Alumni record with a graduation year in the future has just been
\* rejected for a Student that is 'active': it is still 'active' and has no
\* Alumni row
C29_Witness ==
    /\ res.op = "save" /\ res.kind = "alumni"
    /\ res.errs = {"graduation_year"}
    /\ student[res.pid].academic_status = "active"
    /\ res.pid \notin DOMAIN alumni

\* ------------------------------------------ specification: concurrent saves
\* StaffMember.save() as two steps of a request, with no lock and no
\* transaction around them: full_clean() reads the store (the instance, the
\* proposed supervisor and, link by link, the chain above it), and the row
\* is written later.  Another request may write in between.
InitRace ==
    /\ profile = [p \in 1..NRace |-> Tagged("staff")]
    /\ student = EmptyTable
    /\ faculty = EmptyTable
    /\ staff = [p \in 1..NRace |-> StaffRec(Id("A", DigitOf[p]), Past, None)]
    /\ alumni = EmptyTable
    /\ session = NoSession
    /\ department = EmptyTable
    /\ user = DOMAIN profile
    /\ address = {}
    /\ res = Result("init", "none", None, None, {}, {})

\* the request t loads the stored row p, sets its supervisor and runs
\* full_clean(); when that raises, the request ends
StaffValidate(t, p, sup) ==
    LET rec == [staff[p] EXCEPT !.supervisor = sup]
        errs == StaffErrors(p, p, rec)
    IN  /\ session.pending[t].p = None
        /\ StaffCleanProfiles(p, p, rec) # profile => StampRoom(p)
        /\ profile' = StaffCleanProfiles(p, p, rec)
        /\ session' = IF errs = {}
                      THEN [session EXCEPT !.pending[t] =
                               [p |-> p, rec |-> rec, stale |-> FALSE]]
                      ELSE session
        /\ res' = Result(IF errs = {} THEN "validate" ELSE "save", "staff",
                         p, p, errs,
                         IF StaffCleanProfiles(p, p, rec) # profile
                         THEN {"profile"} ELSE {})
        /\ UNCHANGED <<department, user, address, student, faculty, staff, alumni>>

\* super().save() of the request t: the row as validated is written; what
\* the other requests have validated against the rows before is outdated
StaffWrite(t) ==
    LET txn == session.pending[t]
        after == Put(staff, txn.p, txn.rec)
    IN  /\ txn.p # None
        /\ staff' = after
        /\ session' =
              [pending |-> [u \in Threads |->
                              IF u = t THEN NoTxn
                              ELSE IF session.pending[u].p # None /\ after # staff
                              THEN [session.pending[u] EXCEPT !.stale = TRUE]
                              ELSE session.pending[u]],
               raced |-> session.raced \/ txn.stale]
        /\ res' = Result("save", "staff", txn.p, txn.p, {}, {"staff"})
        /\ UNCHANGED <<department, user, address, profile, student, faculty, alumni>>

RaceValidate ==
    \E t \in Threads, p \in DOMAIN staff :
        \E sup \in DOMAIN staff \cup {None} : StaffValidate(t, p, sup)

RaceWrite == \E t \in Threads : StaffWrite(t)

NextRace ==
    \/ RaceValidate
    \/ RaceWrite

SpecRace == InitRace /\ [][NextRace]_vars

\* ------------------------------------------------ claims: concurrent saves
\* C10: two StaffMember saves in flight at once can each pass the cycle
\* check before the other writes, and the rows they then write form a cycle
\* (the witness); and that is the only way to a cycle: as long as no row was
\* written on an outdated validation, the stored supervisor relation is
\* acyclic.
C10_CycleOnlyByRace ==
    session.raced \/ \A p \in DOMAIN staff : ~OnCycle(p)

\* A.supervisor := B and B.supervisor := A were both validated, then both
\* written: each row is the other's supervisor
C10_Witness ==
    /\ staff[1].supervisor = 2
    /\ staff[2].supervisor = 1
    /\ session.raced
    /\ \A t \in Threads : session.pending[t].p = None
    /\ res.op = "save" /\ res.errs = {}

\* ------------------------------ specification: saves over any stored graph
\* The staff table holds one row per user and any supervisor links between
\* different rows, cycles included (concurrent saves leave such rows, see
\* SpecRace); rows are then given other supervisors and deleted, one
\* operation at a time.
InitWalk ==
    /\ profile = [p \in Profiles |-> Tagged("staff")]
    /\ student = EmptyTable
    /\ faculty = EmptyTable
    /\ staff \in {[p \in Profiles |-> StaffRec(Id("A", DigitOf[p]), Past, g[p])] :
                    g \in {h \in [Profiles -> Profiles \cup {None}] :
                              \A p \in Profiles : h[p] # p}}
    /\ alumni = EmptyTable
    /\ session = NoSession
    /\ department = EmptyTable
    /\ user = DOMAIN profile
    /\ address = {}
    /\ res = Result("init", "none", None, None, {}, {})

WalkSave ==
    \E p \in DOMAIN staff : \E sup \in (DOMAIN staff \ {p}) \cup {None} :
        StaffSave(p, p, [staff[p] EXCEPT !.supervisor = sup])

WalkRemove == \E p \in DOMAIN staff : StaffDelete(p)

NextWalk ==
    \/ WalkSave
    \/ WalkRemove

SpecWalk == InitWalk /\ [][NextWalk]_vars

\* ----------------------------------------------- claims: supervisor walk
\* C11: over every stored supervisor graph, cyclic ones included, and for
\* every record and proposed supervisor, the walk of StaffMember.clean ends:
\* it reaches a record with no supervisor or raises the circular-hierarchy
\* error, after looking at no more supervisor records than there are staff
\* rows plus one.
C11_WalkTerminates ==
    \A pk \in DOMAIN staff \cup {None} : \A sup \in DOMAIN staff :
        LET w == Walk(sup, {pk}, 0)
        IN  /\ w.end \in {"top", "raise"}
            /\ w.steps <= Cardinality(DOMAIN staff) + 1
            /\ (w.end = "raise") = WalkRaises(sup, {pk})

\* rows 1 and 2 are each other's supervisor, no row has row 3 as its
\* supervisor, and a save of row 3 under one of them has been rejected: the
\* walk went round the cycle and raised
C11_Witness ==
    /\ {1, 2, 3} \subseteq DOMAIN staff
    /\ staff[1].supervisor = 2
    /\ staff[2].supervisor = 1
    /\ \A q \in DOMAIN staff : staff[q].supervisor # 3
    /\ res = Result("save", "staff", 3, 3, {"supervisor"}, {})
    /\ Walk(1, {3}, 0) = [end |-> "raise", steps |-> 3]

\* ----------------------------------------- specification: access levels
\* Staff records with access levels and supervisors are created and updated
\* through StaffRegistrationForm and through StaffMember.save() itself (the
\* path of StaffMemberCreateUpdateSerializer).
LevelInputs(p) ==
    {[StaffRec(Id("A", DigitOf[p]), Past, sup) EXCEPT !.admin_level = l] :
        sup \in (DOMAIN staff \ {p}) \cup {None}, l \in {2, 3, 4}}

InitLevel ==
    /\ profile = [p \in 1..NLevel |-> NewProfile]
    /\ student = EmptyTable
    /\ faculty = EmptyTable
    /\ staff = EmptyTable
    /\ alumni = EmptyTable
    /\ session = NoSession
    /\ department = EmptyTable
    /\ user = DOMAIN profile
    /\ address = {}
    /\ res = Result("init", "none", None, None, {}, {})

LevelFormSave ==
    \E p \in DOMAIN profile : \E rec \in LevelInputs(p) :
        StaffFormSave(p, IF p \in DOMAIN staff THEN p ELSE None, rec)

LevelModelSave ==
    \E p \in DOMAIN profile : \E rec \in LevelInputs(p) :
        StaffSave(p, IF p \in DOMAIN staff THEN p ELSE None, rec)

NextLevel ==
    \/ LevelFormSave
    \/ LevelModelSave

SpecLevel == InitLevel /\ [][NextLevel]_vars

\* ------------------------------------------------- claims: access levels
\* C12: every stored StaffMember that has a supervisor has an access level
\* no higher than its supervisor's.
C12_SupervisorOutranks ==
    \A p \in DOMAIN staff :
        staff[p].supervisor # None
            => staff[staff[p].supervisor].admin_level >= staff[p].admin_level

\* the submitted access level is above that of the supervisor given
OutranksSupervisor(rec) ==
    /\ rec.supervisor # None
    /\ staff[rec.supervisor].admin_level < rec.admin_level

\* C24 as stated: a StaffRegistrationForm submission carries an error on
\* 'supervisor' exactly when a supervisor is given whose access level is
\* below the submitted one.
C24_SupervisorErrorIffOutranked ==
    [][(res'.op \in {"form", "save"} /\ res'.kind = "staff") =>
          LET p == res'.pid
          IN  \A rec \in LevelInputs(p) :
                StaffFormSave(p, res'.pk, rec)
                  => ("supervisor" \in res'.errs
                         <=> OutranksSupervisor(rec))]_vars

\* C24: a StaffRegistrationForm submission with every other field valid
\* carries an error on 'supervisor' exactly when a supervisor is given whose
\* access level is below the submitted one, or the supervisor given would
\* close a cycle through the record; the access levels of the record's
\* subordinates play no part, and a submission without such an error is
\* stored as submitted.
C24_SupervisorErrorIffOutrankedOrCycle ==
    [][(res'.op \in {"form", "save"} /\ res'.kind = "staff") =>
          LET p == res'.pid
              pk == res'.pk
          IN  \A rec \in LevelInputs(p) :
              (/\ "staff" \in res'.wrote => rec = staff'[p]
               /\ StaffFormSave(p, pk, rec))
                => /\ "supervisor" \in res'.errs
                        <=> (OutranksSupervisor(rec)
                                \/ ClosesCycle(pk, rec.supervisor))
                   /\ "supervisor" \notin res'.errs
                        => staff' = Put(staff, p, rec)]_vars

\* the form has just rejected, on 'supervisor', a record of user 2 whose
\* access level is above that of the level-2 supervisor 1
C24_Witness ==
    /\ res.op = "form" /\ res.kind = "staff"
    /\ "supervisor" \in res.errs
    /\ 1 \in DOMAIN staff
    /\ staff[1].admin_level = 2
    /\ res.pid = 2

\* -------------------------------------------- specification: enrollment
\* One user's Student record is created and updated through Student.save()
\* and through StudentRegistrationForm, with enrollment and graduation dates
\* on both sides of every date rule and with well- and ill-formed ids.
EnrolDates == {Date(2019, 9, 1), Date(2020, 9, 1), Future}

GradDates ==
    {Null} \cup {Some(g) : g \in {Date(2019, 9, 1), Date(2020, 9, 1),
                                 Date(2021, 1, 1), Date(2021, 9, 1),
                                 Date(2022, 9, 1), Date(2024, 6, 1),
                                 Date(2028, 9, 1), Date(2028, 9, 2)}}

\* "S" followed by IdMaxLength digits: one character too long
LongId == <<"S">> \o [i \in 1..IdMaxLength |-> "1"]

IdInputs ==
    {<<>>, <<"S">>, <<"S", "1">>, <<"s", "1">>, <<"S", "x">>,
     <<"S", "1", "x">>, <<"S", "1", "2">>, <<"1", "2">>,
     <<"S", "sup2">>, LongId}

EnrolInputs ==
    {[StudentRec(Id("S", "1"), e, Some(350)) EXCEPT !.expected_graduation = g] :
        e \in EnrolDates, g \in GradDates}
    \cup {[StudentRec(id, Date(2020, 9, 1), Some(350))
              EXCEPT !.expected_graduation = Some(Date(2024, 6, 1))] :
              id \in IdInputs}

InitEnrol ==
    /\ profile = <<NewProfile>>
    /\ student = EmptyTable
    /\ faculty = EmptyTable
    /\ staff = EmptyTable
    /\ alumni = EmptyTable
    /\ session = NoSession
    /\ department = EmptyTable
    /\ user = DOMAIN profile
    /\ address = {}
    /\ res = Result("init", "none", None, None, {}, {})

EnrolModelSave ==
    \E p \in DOMAIN profile : \E rec \in EnrolInputs :
        StudentSave(p, IF p \in DOMAIN student THEN p ELSE None, rec)

EnrolFormSave ==
    \E p \in DOMAIN profile : \E rec \in EnrolInputs :
        StudentFormSave(p, IF p \in DOMAIN student THEN p ELSE None, rec)

NextEnrol ==
    \/ EnrolModelSave
    \/ EnrolFormSave

SpecEnrol == InitEnrol /\ [][NextEnrol]_vars

\* ----------------------------------------------------- claims: enrollment
\* the step is Student.save() of the record rec, as res' reports it
IsStudentSaveOf(rec) ==
    /\ res'.op = "save"
    /\ res'.kind = "student"
    /\ StudentSave(res'.pid, res'.pk, rec)

\* every stored Student with both dates enrolled strictly before graduating
DatesOrdered(table) ==
    \A q \in DOMAIN table :
        IsSet(table[q].expected_graduation)
            => DateLT(table[q].enrollment_date, Val(table[q].expected_graduation))

\* C13 as stated: Student.save() with expected_graduation on or before
\* enrollment_date is rejected with an error on expected_graduation and
\* writes nothing; an accepted record is stored with the dates submitted;
\* every stored Student with both dates has enrollment before graduation.
C13_RejectedOnGraduation ==
    [][/\ \A rec \in EnrolInputs :
            (IsStudentSaveOf(rec) /\ IsSet(rec.expected_graduation))
            => IF DateLE(Val(rec.expected_graduation), rec.enrollment_date)
               THEN "expected_graduation" \in res'.errs /\ store' = store
               ELSE res'.errs = {} => student'[res'.pid] = rec
       /\ DatesOrdered(student')]_vars

\* C13, amended: such a save is always rejected and writes nothing; the
\* error is on expected_graduation unless enrollment_date lies in the
\* future, in which case clean() has already raised on enrollment_date and
\* reports that field alone.
C13_RejectedOnFirstDateError ==
    [][/\ \A rec \in EnrolInputs :
            (IsStudentSaveOf(rec) /\ IsSet(rec.expected_graduation))
            => IF DateLE(Val(rec.expected_graduation), rec.enrollment_date)
               THEN /\ res'.errs # {}
                    /\ store' = store
                    /\ IF DateLT(Today, rec.enrollment_date)
                       THEN res'.errs = {"enrollment_date"}
                       ELSE res'.errs = {"expected_graduation"}
               ELSE res'.errs = {} => student'[res'.pid] = rec
       /\ DatesOrdered(student')]_vars

\* a first Student.save() was rejected on expected_graduation alone: no
\* Student row and the Profile as it was created
C13_Witness ==
    /\ res = Result("save", "student", 1, None, {"expected_graduation"}, {})
    /\ student = EmptyTable
    /\ profile[1] = NewProfile

\* the step is StudentRegistrationForm validating, and saving if valid, rec
IsStudentFormOf(rec) ==
    /\ res'.op \in {"form", "save"}
    /\ res'.kind = "student"
    /\ StudentFormSave(res'.pid, res'.pk, rec)

\* the date a, n calendar years later
AddYears(a, n) == Date(a.y + n, a.m, a.d)

\* C14: StudentRegistrationForm rejects, on expected_graduation, exactly the
\* graduation dates less than two calendar years or more than eight
\* calendar years after enrollment_date; a date two calendar years to the
\* day after enrollment is accepted.
C14_FormDurationRule ==
    [][\A rec \in EnrolInputs :
          (IsStudentFormOf(rec) /\ IsSet(rec.expected_graduation))
          => ("expected_graduation" \in res'.errs)
               = ~(/\ DateLE(AddYears(rec.enrollment_date, 2),
                             Val(rec.expected_graduation))
                   /\ DateLE(Val(rec.expected_graduation),
                             AddYears(rec.enrollment_date, 8)))]_vars

\* ----------------------------------------- specification: graduation year
\* Two Students are stored, one enrolled in 2024 and one in 1949; Alumni
\* records are created and updated for them with graduation years on both
\* sides of the current year, the founding year and the enrollment year.
YearInputs ==
    {AlumniRec(y, Null) : y \in {1948, 1949, 1950, 2023, 2024, 2026, 2027}}
        \cup {AlumniRec(2026, Some(Past)), AlumniRec(2026, Some(Future))}

InitYear ==
    /\ profile = <<Tagged("student"), Tagged("student")>>
    /\ student = <<StudentRec(Id("S", "1"), Past, Some(350)),
                   StudentRec(Id("S", "2"), Date(1949, 9, 1), Some(350))>>
    /\ faculty = EmptyTable
    /\ staff = EmptyTable
    /\ alumni = EmptyTable
    /\ session = NoSession
    /\ department = EmptyTable
    /\ user = DOMAIN profile
    /\ address = {}
    /\ res = Result("init", "none", None, None, {}, {})

YearCreate ==
    \E p \in DOMAIN student \ DOMAIN alumni : \E rec \in YearInputs :
        AlumniSave(p, None, rec)

YearUpdate ==
    \E p \in DOMAIN alumni : \E rec \in YearInputs : AlumniSave(p, p, rec)

NextYear ==
    \/ YearCreate
    \/ YearUpdate

SpecYear == InitYear /\ [][NextYear]_vars

\* ------------------------------------------------ claims: graduation year
\* C15: Alumni.save() is rejected with an error on graduation_year and
\* writes nothing when graduation_year is after the current year, before
\* 1950 or before the year of the linked Student's enrollment_date; with any
\* other graduation_year, and last_contact_date absent or not in the
\* future, it is accepted and the row holds the year submitted.
C15_GraduationYearRule ==
    [][(res'.op = "save" /\ res'.kind = "alumni") =>
          \A rec \in YearInputs :
              AlumniSave(res'.pid, res'.pk, rec) =>
                  IF \/ rec.graduation_year > Today.y
                     \/ rec.graduation_year < 1950
                     \/ rec.graduation_year
                            < student[res'.pid].enrollment_date.y
                  THEN res'.errs = {"graduation_year"} /\ store' = store
                  ELSE (~IsSet(rec.last_contact_date)
                           \/ DateLE(Val(rec.last_contact_date), Today))
                       => /\ res'.errs = {}
                          /\ res'.pid \in DOMAIN alumni'
                          /\ alumni'[res'.pid] = rec]_vars

\* the Student enrolled in 2024 has no Alumni row, its status is still
\* "active", and an Alumni.save() for it has just been rejected on
\* graduation_year; the Student enrolled in 1949 has an Alumni row of 1950
C15_Witness ==
    /\ res = Result("save", "alumni", 1, None, {"graduation_year"}, {})
    /\ 1 \notin DOMAIN alumni
    /\ student[1].academic_status = "active"
    /\ 2 \in DOMAIN alumni
    /\ alumni[2].graduation_year = 1950

\* -------------------------------------------- specification: identifiers
\* Two users create and update role records of all three kinds, drawing
\* their identifiers from the same two numbers.
IdDigits == {"1", "2"}

InitIds ==
    /\ profile = <<NewProfile, NewProfile>>
    /\ student = EmptyTable
    /\ faculty = EmptyTable
    /\ staff = EmptyTable
    /\ alumni = EmptyTable
    /\ session = NoSession
    /\ department = EmptyTable
    /\ user = DOMAIN profile
    /\ address = {}
    /\ res = Result("init", "none", None, None, {}, {})

IdsStudentSave ==
    \E p \in DOMAIN profile, d \in IdDigits :
        StudentSave(p, IF p \in DOMAIN student THEN p ELSE None,
                    StudentRec(Id("S", d), Past, Some(350)))

IdsFacultySave ==
    \E p \in DOMAIN profile, d \in IdDigits :
        FacultySave(p, IF p \in DOMAIN faculty THEN p ELSE None,
                    FacultyRec(Id("F", d), Past))

IdsStaffSave ==
    \E p \in DOMAIN profile, d \in IdDigits :
        StaffSave(p, IF p \in DOMAIN staff THEN p ELSE None,
                  StaffRec(Id("A", d), Past, None))

NextIds ==
    \/ IdsStudentSave
    \/ IdsFacultySave
    \/ IdsStaffSave

SpecIds == InitIds /\ [][NextIds]_vars

\* ---------------------------------------------------- claims: identifiers
\* no two rows of the table carry the same value in the field
UniqueIn(table, field) ==
    \A a, b \in DOMAIN table : table[a][field] = table[b][field] => a = b

\* another row than pk carries the identifier
IdTaken(table, field, pk, id) ==
    \E q \in DOMAIN table : q # pk /\ table[q][field] = id

\* C16: no two Student rows share a student_id, no two FacultyMember rows a
\* faculty_id and no two StaffMember rows a staff_id; a save whose
\* identifier another row already carries is rejected with an error on the
\* identifier field and writes no role row.
C16_IdsUnique ==
    [][/\ UniqueIn(student', "student_id")
       /\ UniqueIn(faculty', "faculty_id")
       /\ UniqueIn(staff', "staff_id")
       /\ res'.op = "save" =>
            \A d \in IdDigits :
                /\ (/\ StudentSave(res'.pid, res'.pk,
                                    StudentRec(Id("S", d), Past, Some(350)))
                    /\ IdTaken(student, "student_id", res'.pk, Id("S", d)))
                   => "student_id" \in res'.errs
                        /\ <<student', faculty', staff'>>
                              = <<student, faculty, staff>>
                /\ (/\ FacultySave(res'.pid, res'.pk,
                                    FacultyRec(Id("F", d), Past))
                    /\ IdTaken(faculty, "faculty_id", res'.pk, Id("F", d)))
                   => "faculty_id" \in res'.errs
                        /\ <<student', faculty', staff'>>
                              = <<student, faculty, staff>>
                /\ (/\ StaffSave(res'.pid, res'.pk,
                                  StaffRec(Id("A", d), Past, None))
                    /\ IdTaken(staff, "staff_id", res'.pk, Id("A", d)))
                   => "staff_id" \in res'.errs
                        /\ <<student', faculty', staff'>>
                              = <<student, faculty, staff>>]_vars

\* user 1 holds the student_id S1, and the first Student save of user 2
\* has been rejected on student_id: user 2 has no Student row
C16_Witness ==
    /\ 1 \in DOMAIN student
    /\ student[1].student_id = Id("S", "1")
    /\ 2 \notin DOMAIN student
    /\ res.op = "save" /\ res.kind = "student" /\ res.pid = 2
    /\ res.errs = {"student_id"}

\* "S" followed by one or more decimal digits
WellFormedStudentId(id) ==
    /\ Len(id) >= 2
    /\ id[1] = "S"
    /\ \A i \in 2..Len(id) : id[i] \in Digits

\* C17: Student.save() and StudentRegistrationForm report an error on
\* student_id exactly for the ids that are not "S" followed by one or more
\* decimal digits.
C17_StudentIdFormat ==
    [][\A rec \in EnrolInputs :
          (IsStudentSaveOf(rec) \/ IsStudentFormOf(rec))
          => ("student_id" \in res'.errs) = ~WellFormedStudentId(rec.student_id)]_vars

\* ------------------------------------------ specification: id formats
\* One user's FacultyMember and StaffMember records are created and updated
\* with well- and ill-formed identifiers, through the models' save() (the
\* path of the create/update serializers) and, for staff, through
\* StaffRegistrationForm.
FormatIds(prefix) ==
    {<<prefix, "1">>, <<prefix, "2">>, <<prefix>>, <<"x", "1">>,
     <<prefix, "1", "x">>}

InitFormat ==
    /\ profile = <<NewProfile>>
    /\ student = EmptyTable
    /\ faculty = EmptyTable
    /\ staff = EmptyTable
    /\ alumni = EmptyTable
    /\ session = NoSession
    /\ department = EmptyTable
    /\ user = DOMAIN profile
    /\ address = {}
    /\ res = Result("init", "none", None, None, {}, {})

FormatFacultySave ==
    \E p \in DOMAIN profile, id \in FormatIds("F") :
        FacultySave(p, IF p \in DOMAIN faculty THEN p ELSE None,
                    FacultyRec(id, Past))

FormatStaffSave ==
    \E p \in DOMAIN profile, id \in FormatIds("A") :
        StaffSave(p, IF p \in DOMAIN staff THEN p ELSE None,
                  StaffRec(id, Past, None))

FormatStaffForm ==
    \E p \in DOMAIN profile, id \in FormatIds("A") :
        StaffFormSave(p, IF p \in DOMAIN staff THEN p ELSE None,
                      StaffRec(id, Past, None))

NextFormat ==
    \/ FormatFacultySave
    \/ FormatStaffSave
    \/ FormatStaffForm

SpecFormat == InitFormat /\ [][NextFormat]_vars

\* ---------------------------------------------------- claims: id formats
\* the prefix followed by one or more decimal digits
WellFormedId(prefix, id) ==
    /\ Len(id) >= 2
    /\ id[1] = prefix
    /\ \A i \in 2..Len(id) : id[i] \in Digits

\* C18: every stored FacultyMember has a faculty_id of the form "F" and
\* digits, and every stored StaffMember a staff_id of the form "A" and
\* digits.
C18_RoleIdFormat ==
    /\ \A q \in DOMAIN faculty : WellFormedId("F", faculty[q].faculty_id)
    /\ \A q \in DOMAIN staff : WellFormedId("A", staff[q].staff_id)

\* ------------------------------------------------ specification: deletes
\* Three users are stored: user 1 with a Student record and possibly an
\* Alumni record, users 2 and 3 with StaffMember records, one possibly the
\* other's supervisor; each Profile references one of two Addresses or
\* none.  Users, Addresses, the Student and the StaffMembers are deleted
\* in any order.
DeleteUsers == {1, 2, 3}

DeleteAddresses == {1, 2}

InitDelete ==
    /\ user = DeleteUsers
    /\ address = DeleteAddresses
    /\ profile \in {[u \in DeleteUsers |->
                        [Tagged(IF u = 1 THEN "student" ELSE "staff")
                            EXCEPT !.address = adr[u]]] :
                     adr \in [DeleteUsers -> DeleteAddresses \cup {None}]}
    /\ student = (1 :> StudentRec(Id("S", "1"), Past, Some(350)))
    /\ faculty = EmptyTable
    /\ staff \in {(2 :> StaffRec(Id("A", "2"), Past, sup[2])
                     @@ 3 :> StaffRec(Id("A", "3"), Past, sup[3])) :
                   sup \in {<<None, None, None>>, <<None, 3, None>>,
                            <<None, None, 2>>}}
    /\ alumni \in {EmptyTable, (1 :> AlumniRec(2025, Null))}
    /\ session = NoSession
    /\ department = EmptyTable
    /\ res = Result("init", "none", None, None, {}, {})

DoUserDelete == \E u \in user : UserDelete(u)

DoAddressDelete == \E a \in address : AddressDelete(a)

DoStaffRemove == \E p \in DOMAIN staff : StaffDelete(p)

DoStudentRemove == \E p \in DOMAIN student : StudentDelete(p)

NextDelete ==
    \/ DoUserDelete
    \/ DoAddressDelete
    \/ DoStaffRemove
    \/ DoStudentRemove

SpecDelete == InitDelete /\ [][NextDelete]_vars

\* -------------------------------------------------------- claims: deletes
\* every reference of a stored row leads to a stored row
NoDanglingReference ==
    /\ DOMAIN profile \subseteq user
    /\ \A p \in DOMAIN profile : profile[p].address \in address \cup {None}
    /\ DOMAIN student \subseteq DOMAIN profile
    /\ DOMAIN faculty \subseteq DOMAIN profile
    /\ DOMAIN staff \subseteq DOMAIN profile
    /\ DOMAIN alumni \subseteq DOMAIN student
    /\ \A p \in DOMAIN staff : staff[p].supervisor \in DOMAIN staff \cup {None}

\* C19: after every delete no stored row references a deleted one;
\* deleting a user removes its Profile, the role records of that Profile
\* and the Alumni record of its Student; deleting an Address leaves every
\* Profile in place, those that referenced it with the reference cleared;
\* deleting a StaffMember leaves the other StaffMembers in place, its
\* subordinates with the supervisor cleared.
C19_DeletesLeaveNoReference ==
    [][/\ NoDanglingReference'
       /\ (res'.op = "delete" /\ res'.kind = "user") =>
             /\ res'.pid \notin user'
             /\ \A t \in {profile', student', faculty', staff', alumni'} :
                    res'.pid \notin DOMAIN t
       /\ (res'.op = "delete" /\ res'.kind = "address") =>
             /\ DOMAIN profile' = DOMAIN profile
             /\ \A q \in DOMAIN profile :
                    profile'[q] =
                        [profile[q] EXCEPT !.address =
                            IF @ = res'.pid THEN None ELSE @]
       /\ (res'.op = "delete" /\ res'.kind = "staff") =>
             /\ DOMAIN staff' = DOMAIN staff \ {res'.pid}
             /\ \A q \in DOMAIN staff' :
                    staff'[q] =
                        [staff[q] EXCEPT !.supervisor =
                            IF @ = res'.pid THEN None ELSE @]]_vars

\* user 2, the supervisor of user 3's StaffMember record, has been deleted
\* together with its Profile and StaffMember record, and so has user 1 with
\* its Student and Alumni records; user 3 is left with its StaffMember
\* record and no supervisor
C19_Witness ==
    /\ user = {3}
    /\ DOMAIN profile = {3}
    /\ DOMAIN staff = {3}
    /\ staff[3].supervisor = None
    /\ student = EmptyTable
    /\ alumni = EmptyTable
    /\ res = Result("delete", "user", 2, 2, {}, {"user", "profile", "staff"})

\* ------------------------------------------- specification: user lifecycle
\* Users are created, saved again and deleted; the owners edit their
\* Profiles.
InitUsers ==
    /\ user = {}
    /\ address = {}
    /\ profile = EmptyTable
    /\ student = EmptyTable
    /\ faculty = EmptyTable
    /\ staff = EmptyTable
    /\ alumni = EmptyTable
    /\ session = NoSession
    /\ department = EmptyTable
    /\ res = Result("init", "none", None, None, {}, {})

DoUserCreate == \E u \in 1..NUsers : UserCreate(u)

DoUserSave == \E u \in user : UserSave(u)

DoUserRemove == \E u \in user : UserDelete(u)

DoProfileEdit ==
    \E p \in DOMAIN profile, ut \in {"student", "staff", "dean"},
       dob \in {Null, Some(Date(2000, 1, 1)), Some(Future)} :
        ProfileUpdate(p, ut, dob, TRUE)

NextUsers ==
    \/ DoUserCreate
    \/ DoUserSave
    \/ DoUserRemove
    \/ DoProfileEdit

SpecUsers == InitUsers /\ [][NextUsers]_vars

\* -------------------------------------------------- claims: user lifecycle
\* C20: every stored user has a Profile and every Profile a stored user,
\* after the user's creation and after every later save; the Profile a user
\* is created with has the role tag "other" and no role record.
C20_OneProfilePerUser ==
    [][/\ DOMAIN profile' = user'
       /\ (res'.op = "create" /\ res'.kind = "user") =>
             /\ profile'[res'.pid].user_type = "other"
             /\ \A t \in {student', faculty', staff', alumni'} :
                    res'.pid \notin DOMAIN t]_vars

\* user 1 was created and has just been saved again: it still has the one
\* Profile, tagged "other", written by the creation and by the later save
C20_Witness ==
    /\ user = {1}
    /\ DOMAIN profile = {1}
    /\ profile[1].user_type = "other"
    /\ profile[1].last_updated = 2
    /\ student = EmptyTable /\ faculty = EmptyTable /\ staff = EmptyTable
    /\ res = Result("save", "user", 1, 1, {}, {"user", "profile"})

\* ------------------------------------------------- specification: tenure
\* One FacultyMember of any position and hire date; is_tenured() is called
\* at any of the current dates, and the record is saved with another
\* position or hire date in between.
TenureHireDates ==
    {Date(2012, 1, 1), Date(2019, 6, 15), Date(2019, 6, 16),
     Date(2020, 2, 29), Date(2026, 6, 15)}

TenureDates ==
    {Today, Date(2026, 6, 16), Date(2027, 2, 27), Date(2027, 2, 28),
     Date(2027, 3, 1), Date(2033, 6, 14), Date(2033, 6, 15)}

TenureRec(pos, hired) == [FacultyRec(Id("F", "1"), hired) EXCEPT !.position = pos]

InitTenure ==
    /\ user = {1}
    /\ address = {}
    /\ profile = (1 :> Tagged("faculty"))
    /\ student = EmptyTable
    /\ faculty \in {(1 :> TenureRec(pos, hired)) :
                      pos \in POSITION_CHOICES, hired \in TenureHireDates}
    /\ staff = EmptyTable
    /\ alumni = EmptyTable
    /\ session = NoSession
    /\ department = EmptyTable
    /\ res = Result("init", "none", None, None, {}, {})

TenureCall ==
    \E p \in DOMAIN faculty, today \in TenureDates :
        /\ res' = Returned("is_tenured", "faculty", p, today,
                           IsTenured(faculty[p], today))
        /\ UNCHANGED store
        /\ UNCHANGED session

TenureSave ==
    \E pos \in {"asst_professor", "lecturer"},
       hired \in {Date(2019, 6, 15), Date(2020, 2, 29)} :
        FacultySave(1, 1, TenureRec(pos, hired))

NextTenure ==
    \/ TenureCall
    \/ TenureSave

SpecTenure == InitTenure /\ [][NextTenure]_vars

\* ---------------------------------------------------------- claims: tenure
\* the n-th anniversary of a date; that of a 29 February falls on the last
\* day of February
Anniversary(a, n) ==
    Date(a.y + n, a.m,
         IF a.d < DaysInMonth(a.y + n, a.m) THEN a.d
         ELSE DaysInMonth(a.y + n, a.m))

\* C21: is_tenured() is true for a professor and an associate professor
\* whatever the hire date, for an assistant professor exactly from the
\* seventh anniversary of the hire date on, and false for every other
\* position; between two calls on an unchanged record, the later of them at
\* the same or a later current date, the result never goes from true to
\* false.
C21_TenureRule ==
    [][res'.op = "is_tenured" =>
          LET row == faculty'[res'.pid]
          IN  /\ res'.value =
                    CASE row.position \in {"professor", "assoc_professor"} -> TRUE
                      [] row.position = "asst_professor" ->
                           DateLE(Anniversary(row.hire_date, 7), res'.today)
                      [] OTHER -> FALSE
              /\ (/\ res.op = "is_tenured"
                  /\ res.pid = res'.pid
                  /\ faculty' = faculty
                  /\ DateLE(res.today, res'.today)
                  /\ res.value) => res'.value]_vars

\* an assistant professor hired on 29 February 2020 is asked on
\* 28 February 2027, the seventh anniversary, and is tenured
C21_Witness ==
    /\ 1 \in DOMAIN faculty
    /\ faculty[1].position = "asst_professor"
    /\ faculty[1].hire_date = Date(2020, 2, 29)
    /\ res = Returned("is_tenured", "faculty", 1, Date(2027, 2, 28), TRUE)

\* ----------------------------------------------- specification: on track
\* One Student with any of the dates and credits; is_on_track() is called
\* on the stored row and on instances that lack a date, and the Student is
\* saved with other dates in between.
TrackEnrolDates == {Date(2024, 9, 1), Date(2022, 9, 1)}

TrackGradDates == {Null, Some(Date(2028, 9, 1)), Some(Date(2026, 9, 1))}

TrackCredits == {0, 48, 60, 107, 108}

TrackRec(enrolled, graduation, credits) ==
    [StudentRec(Id("S", "1"), enrolled, Null)
        EXCEPT !.expected_graduation = graduation]
    @@ [credits_completed |-> credits]

InitTrack ==
    /\ user = {1}
    /\ address = {}
    /\ profile = (1 :> Tagged("student"))
    /\ student \in {(1 :> TrackRec(enrolled, graduation, credits)) :
                      enrolled \in TrackEnrolDates,
                      graduation \in TrackGradDates,
                      credits \in TrackCredits}
    /\ faculty = EmptyTable
    /\ staff = EmptyTable
    /\ alumni = EmptyTable
    /\ session = NoSession
    /\ department = EmptyTable
    /\ res = Result("init", "none", None, None, {}, {})

\* the call on the stored row
TrackCall ==
    \E p \in DOMAIN student :
        /\ res' = Returned("is_on_track", "student", p, Today,
                           IsOnTrack(Some(student[p].enrollment_date),
                                     student[p].expected_graduation,
                                     student[p].credits_completed))
        /\ UNCHANGED store
        /\ UNCHANGED session

\* the call on an instance built without an enrollment date
TrackCallUnsaved ==
    \E graduation \in TrackGradDates, credits \in TrackCredits :
        /\ res' = Returned("is_on_track", "student", None, Today,
                           IsOnTrack(Null, graduation, credits))
        /\ UNCHANGED store
        /\ UNCHANGED session

TrackSave ==
    \E enrolled \in TrackEnrolDates, graduation \in TrackGradDates :
        StudentSave(1, 1, TrackRec(enrolled, graduation,
                                   student[1].credits_completed))

NextTrack ==
    \/ TrackCall
    \/ TrackCallUnsaved
    \/ TrackSave

SpecTrack == InitTrack /\ [][NextTrack]_vars

\* -------------------------------------------------------- claims: on track
\* C22: is_on_track() on a stored Student returns null when
\* expected_graduation is absent, and otherwise true exactly when
\* credits_completed is at least 90% of the total expected credits (15 per
\* 6 months of the span from enrollment to graduation) prorated to the days
\* elapsed since enrollment at the current date, the elapsed time counted
\* no further than the graduation date.
C22_OnTrackProrated ==
    [][(res'.op = "is_on_track" /\ res'.pid # None) =>
          LET row == student'[res'.pid]
              grad == Val(row.expected_graduation)
              months == RelativeMonths(grad, row.enrollment_date)
              span == DaysBetween(row.enrollment_date, grad)
              past == DaysBetween(row.enrollment_date, res'.today)
              elapsed == IF past > span THEN span ELSE past
          IN  IF ~IsSet(row.expected_graduation) THEN res'.value = Null
              ELSE res'.value
                     = Some(4 * row.credits_completed * span
                               >= 9 * months * elapsed)]_vars

\* ---------------------------------------------- specification: departments
\* Departments are created and saved again, with names that repeat and
\* names that differ in case only.
DepartmentNames == {"Physics", "physics", "Chemistry"}

DepartmentTexts == {"Department of Physics", "Duplicate Department"}

InitDepartments ==
    /\ user = {}
    /\ address = {}
    /\ department = EmptyTable
    /\ profile = EmptyTable
    /\ student = EmptyTable
    /\ faculty = EmptyTable
    /\ staff = EmptyTable
    /\ alumni = EmptyTable
    /\ session = NoSession
    /\ res = Result("init", "none", None, None, {}, {})

DoDepartmentCreate ==
    \E name \in DepartmentNames, description \in DepartmentTexts :
        DepartmentCreate(name, description)

DoDepartmentSave ==
    \E pk \in DOMAIN department, name \in DepartmentNames,
       description \in DepartmentTexts :
        DepartmentSave(pk, name, description)

NextDepartments ==
    \/ DoDepartmentCreate
    \/ DoDepartmentSave

SpecDepartments == InitDepartments /\ [][NextDepartments]_vars

\* ----------------------------------------------------- claims: departments
\* C23: no two stored Departments have the same name, and a create with a
\* name that a stored Department holds fails and leaves the table as it was.
C23_DepartmentNamesUnique ==
    [][/\ \A a, b \in DOMAIN department' :
              department'[a].name = department'[b].name => a = b
       /\ \A name \in DepartmentNames, description \in DepartmentTexts :
              (DepartmentCreate(name, description) /\ NameTaken(None, name))
                  => (department' = department /\ res'.errs # {})]_vars

\* "Physics" is stored and a second create with that name has just failed
C23_Witness ==
    /\ DOMAIN department = {1}
    /\ department[1].name = "Physics"
    /\ res = Result("create", "department", None, None, {"name"}, {})

\* ---------------------------------------------- specification: graduates
\* One Student, enrolled in 2024.  The Student is saved with other statuses
\* and enrollment dates, the admin marks it with a status, and an Alumni
\* record is created and updated for it.
GradStudentInputs ==
    {[StudentRec(Id("S", "1"), enrolled, Null) EXCEPT !.academic_status = st] :
        enrolled \in {Date(2022, 9, 1), Past, Date(2026, 1, 1)},
        st \in {"active", "graduated"}}

GradAlumniInputs == {AlumniRec(y, Null) : y \in {2021, 2023, 2025, 2026}}

InitGrad ==
    /\ user = {1}
    /\ address = {}
    /\ department = EmptyTable
    /\ profile = (1 :> Tagged("student"))
    /\ student = (1 :> StudentRec(Id("S", "1"), Past, Null))
    /\ faculty = EmptyTable
    /\ staff = EmptyTable
    /\ alumni = EmptyTable
    /\ session = NoSession
    /\ res = Result("init", "none", None, None, {}, {})

GradStudentSave == \E rec \in GradStudentInputs : StudentSave(1, 1, rec)

GradMarkAs ==
    \E selected \in SUBSET DOMAIN student,
       status \in {"graduated", "on_leave", "active"} :
        StudentMarkAs(selected, status)

GradAlumniSave ==
    \E rec \in GradAlumniInputs :
        AlumniSave(1, IF 1 \in DOMAIN alumni THEN 1 ELSE None, rec)

NextGrad ==
    \/ GradStudentSave
    \/ GradMarkAs
    \/ GradAlumniSave

SpecGrad == InitGrad /\ [][NextGrad]_vars

\* ------------------------------------------------------- claims: graduates
\* C25: every Student that has an Alumni record has academic_status
\* 'graduated'.
C25_AlumniStudentGraduated ==
    \A p \in DOMAIN alumni : student[p].academic_status = "graduated"

\* C26: every Alumni record's graduation_year is at least the year of its
\* Student's enrollment_date.
C26_GraduationNotBeforeEnrollment ==
    \A p \in DOMAIN alumni :
        alumni[p].graduation_year >= student[p].enrollment_date.y

\* ------------------------------------------ specification: held instances
\* A request loads a Profile and later saves a Student on the instance it
\* holds; the owner of the Profile edits it at any time.
InitHeld ==
    /\ user = {1}
    /\ address = {}
    /\ department = EmptyTable
    /\ profile = (1 :> NewProfile)
    /\ student = EmptyTable
    /\ faculty = EmptyTable
    /\ staff = EmptyTable
    /\ alumni = EmptyTable
    /\ session = NoSession
    /\ res = Result("init", "none", None, None, {}, {})

HeldLoad ==
    /\ session = NoSession
    /\ \E p \in DOMAIN profile : StudentLoad(p)

HeldSave ==
    /\ session # NoSession
    /\ \E enrolled \in {Past, Future} :
          StudentSaveHeld(StudentRec(Id("S", "1"), enrolled, Null))

HeldOwnerEdit ==
    \E ut \in {"other", "student"},
       dob \in {Null, Some(Date(2000, 1, 1))}, active \in BOOLEAN :
        ProfileUpdate(1, ut, dob, active)

NextHeld ==
    \/ HeldLoad
    \/ HeldSave
    \/ HeldOwnerEdit

SpecHeld == InitHeld /\ [][NextHeld]_vars

\* -------------------------------------------------- claims: held instances
\* C27: a Student save that corrects the role tag leaves every other field
\* of the stored Profile as it was in the store just before the save.
C27_CorrectionKeepsOtherFields ==
    [][(res'.op = "save" /\ res'.kind = "student" /\ "profile" \in res'.wrote)
          => LET p == res'.pid
             IN  /\ profile'[p].date_of_birth = profile[p].date_of_birth
                 /\ profile'[p].address = profile[p].address
                 /\ profile'[p].is_active = profile[p].is_active]_vars

\* -------------------------------------- specification: rejected role saves
\* One Profile tagged 'other'.  Student, FacultyMember and StaffMember
\* records are saved for it with dates and ids that pass and that fail the
\* checks of clean(); the owner sets the tag back.
RejectStudentInputs ==
    {[StudentRec(id, enrolled, Null) EXCEPT !.expected_graduation = g] :
        id \in {Id("S", "1"), Id("x", "1")},
        enrolled \in {Past, Future},
        g \in {Null, Some(Past), Some(Date(2028, 9, 1))}}

RejectHireDates == {Past, Today, Future}

InitReject ==
    /\ user = {1}
    /\ address = {}
    /\ department = EmptyTable
    /\ profile = (1 :> NewProfile)
    /\ student = EmptyTable
    /\ faculty = EmptyTable
    /\ staff = EmptyTable
    /\ alumni = EmptyTable
    /\ session = NoSession
    /\ res = Result("init", "none", None, None, {}, {})

RejectStudentSave ==
    \E rec \in RejectStudentInputs :
        StudentSave(1, IF 1 \in DOMAIN student THEN 1 ELSE None, rec)

RejectFacultySave ==
    \E hired \in RejectHireDates :
        FacultySave(1, IF 1 \in DOMAIN faculty THEN 1 ELSE None,
                    FacultyRec(Id("F", "1"), hired))

RejectStaffSave ==
    \E hired \in RejectHireDates :
        StaffSave(1, IF 1 \in DOMAIN staff THEN 1 ELSE None,
                  StaffRec(Id("A", "1"), hired, None))

RejectOwnerEdit == ProfileUpdate(1, "other", Null, TRUE)

NextReject ==
    \/ RejectStudentSave
    \/ RejectFacultySave
    \/ RejectStaffSave
    \/ RejectOwnerEdit

SpecReject == InitReject /\ [][NextReject]_vars

\* ------------------------------------------- claims: rejected role saves
\* the dates and the id of a Student record fail a check of clean()
StudentCheckFails(rec) ==
    \/ DateLT(Today, rec.enrollment_date)
    \/ /\ IsSet(rec.expected_graduation)
       /\ DateLE(Val(rec.expected_graduation), rec.enrollment_date)
    \/ ~WellFormedStudentId(rec.student_id)

\* C28: a role-record save whose own clean() check fails (a Student with a
\* future enrollment date, a graduation date not after enrollment or a
\* malformed id; a FacultyMember or StaffMember with a future hire date) is
\* rejected, writes no role row, and leaves the Profile as it was.
C28_FailedCheckKeepsTag ==
    [][/\ (res'.op = "save" /\ res'.kind = "student") =>
             \A rec \in RejectStudentInputs :
                 (StudentCheckFails(rec) /\ StudentSave(res'.pid, res'.pk, rec))
                     => (res'.errs # {} /\ student' = student
                            /\ profile' = profile)
       /\ (res'.op = "save" /\ res'.kind = "faculty") =>
             \A hired \in RejectHireDates :
                 (/\ DateLT(Today, hired)
                  /\ FacultySave(res'.pid, res'.pk,
                                 FacultyRec(Id("F", "1"), hired)))
                     => ("hire_date" \in res'.errs /\ faculty' = faculty
                            /\ profile' = profile)
       /\ (res'.op = "save" /\ res'.kind = "staff") =>
             \A hired \in RejectHireDates :
                 (/\ DateLT(Today, hired)
                  /\ StaffSave(res'.pid, res'.pk,
                               StaffRec(Id("A", "1"), hired, None)))
                     => ("hire_date" \in res'.errs /\ staff' = staff
                            /\ profile' = profile)]_vars

\* a Student record with an enrollment date in the future has just been
\* rejected for the Profile tagged 'other', and the tag is still 'other'
C28_Witness ==
    /\ res = Result("save", "student", 1, None, {"enrollment_date"}, {})
    /\ profile[1].user_type = "other"
    /\ student = EmptyTable

\* --------------------------------------------- specification: engagement
\* Three graduates with Alumni records of any engagement levels; the admin
\* applies 'Increase engagement level' to any selection of them.
EngageAlumni == {1, 2, 3}

InitEngage ==
    /\ user = EngageAlumni
    /\ address = {}
    /\ department = EmptyTable
    /\ profile = [p \in EngageAlumni |-> Tagged("student")]
    /\ student = [p \in EngageAlumni |->
                     [StudentRec(Id("S", DigitOf[p]), Past, Null)
                         EXCEPT !.academic_status = "graduated"]]
    /\ faculty = EmptyTable
    /\ staff = EmptyTable
    /\ alumni \in {[p \in EngageAlumni |->
                       [AlumniRec(2025, Null) EXCEPT !.engagement_level = l[p]]] :
                     l \in [EngageAlumni -> 1..3]}
    /\ session = NoSession
    /\ res = Result("init", "none", None, None, {}, {})

DoAlumniEngage == \E selected \in SUBSET DOMAIN alumni : AlumniEngage(selected)

NextEngage == DoAlumniEngage

SpecEngage == InitEngage /\ [][NextEngage]_vars

\* ----------------------------------------------------- claims: engagement
\* C30: every engagement_level stays in 1..3; the action raises by one the
\* level of each selected record below 3, and leaves the selected records
\* at 3 and the records not selected as they were.
C30_EngagementStaysInRange ==
    [][/\ \A p \in DOMAIN alumni' : alumni'[p].engagement_level \in 1..3
       /\ res'.op = "update_engagement_level" =>
             /\ DOMAIN alumni' = DOMAIN alumni
             /\ \A p \in DOMAIN alumni :
                   alumni'[p] =
                      IF p \in res'.pid /\ alumni[p].engagement_level < 3
                      THEN [alumni[p] EXCEPT
                               !.engagement_level = alumni[p].engagement_level + 1]
                      ELSE alumni[p]]_vars

\* all three records were selected: the one at level 3 stayed, the other two
\* were raised by the action
C30_Witness ==
    /\ res = Returned("update_engagement_level", "alumni", {1, 2, 3}, Today, 2)
    /\ alumni[1].engagement_level = 3
    /\ alumni[2].engagement_level = 3
    /\ alumni[3].engagement_level = 2

====
